---- MODULE Spec2Model ----
(***************************************************************************)
(* Calendar materialization and day classification of the student         *)
(* scheduling application: the calendar page (CalendarPage) and the       *)
(* dashboard calendar widget (CalendarWidget).                             *)
(*                                                                         *)
(* Time.  A JavaScript Date is an instant; the model counts instants in   *)
(* whole hours since 1970-01-01T00:00Z.  The local time zone is a fixed   *)
(* whole-hour offset tz (local = UTC + tz).  Every Date the two           *)
(* components build or compare lies on an hour boundary except            *)
(* endOfMonth (23:59:59.999), which is kept as the 23rd hour of its day:  *)
(* it is used only in comparisons with whole-hour instants and in         *)
(* day-of-instant computations, both of which are the same for the        *)
(* floored value.                                                          *)
(*                                                                         *)
(* A date string "YYYY-MM-DD" is the record [y, m, d].                     *)
(***************************************************************************)
EXTENDS Integers, Sequences, FiniteSets

VARIABLES
    tz,                 \* UTC offset of the local time zone, in hours
    dbSubjects,         \* gateway: rows of table subjects (of the user)
    dbTasks,            \* gateway: rows of table tasks (of the user)
    mounted,            \* which calendar component is mounted
    selectedDate,       \* useState selectedDate
    events,             \* useState events
    selectedDayEvents,  \* useState selectedDayEvents
    isDayModalOpen,     \* useState isDayModalOpen
    loading,            \* useState loading
    inflight,           \* fetchData calls awaiting the gateway: the
                        \* selectedDate each one captured
    lastToast,          \* the last toast shown
    lastArgs,           \* arguments of the latest generateCalendarEvents call
    staleStore,         \* whether that call found other events stored
    dbClock,            \* gateway: the value of now() (a counter)
    lastCommand,        \* gateway: the last insert, update or delete received
    pageSubjects,       \* SubjectsPage: useState subjects
    pageTasks,          \* TasksPage: useState tasks
    requests,           \* page commands awaiting the gateway, each with
                        \* the values its handler captured
    toggleLog,          \* the completed toggleTaskComplete calls of the
                        \* tasks page, with the rows before and after
    taskForm,           \* TaskForm: the task edited and the field values
    subjectForm,        \* SubjectForm: the subject edited and the field values
    now,                \* browser clock, in half minutes since the epoch
    permission,         \* useNotifications: useState permission
    browserPermission,  \* Notification.permission
    promptPending,      \* Notification.requestPermission() awaiting the user
    hookMounted,        \* whether the component using the hook is mounted
    timers,             \* active interval timers: the instant each fires next
    notifications,      \* useNotifications: useState notifications
    alerts,             \* every alert createNotification has shown
    lastCheck,          \* the latest checkUpcomingItems call
    mounts,             \* how many times the hook has been mounted
    search,             \* SearchBar: useState search
    results,            \* SearchBar: useState results
    searches,           \* searchData calls awaiting the gateway: the term
                        \* each one captured
    debounce,           \* SearchBar: the term of the pending setTimeout
    lastSearch,         \* the latest searchData call that has completed
    todaySubjects,      \* Dashboard: useState todaySubjects
    tomorrowSubjects,   \* Dashboard: useState tomorrowSubjects
    upcomingTasks,      \* Dashboard: useState upcomingTasks
    dashboardLoading,   \* Dashboard: useState loading
    rendered            \* DayDetailModal: the sections it has rendered

\* state of the calendar components
calendarVars == <<mounted, selectedDate, events, selectedDayEvents,
                  isDayModalOpen, loading, inflight, lastArgs, staleStore>>

\* state of the subjects page, the tasks page and their forms
pageVars == <<dbClock, lastCommand, pageSubjects, pageTasks, requests,
              toggleLog, taskForm, subjectForm>>

\* state of the notification hook
pollerVars == <<now, permission, browserPermission, promptPending,
                hookMounted, timers, notifications, alerts, lastCheck,
                mounts>>

\* state of the search bar
searchVars == <<search, results, searches, debounce, lastSearch>>

\* state of the dashboard
dashboardVars == <<todaySubjects, tomorrowSubjects, upcomingTasks,
                   dashboardLoading>>

vars == <<tz, dbSubjects, dbTasks, lastToast, calendarVars, pageVars,
          pollerVars, searchVars, dashboardVars, rendered>>

----------------------------------------------------------------------------
(* Bounds *)

MaxSubjects == 1
MaxTasks == 2
MaxInflight == 1
WindowDays == 1
MaxRequests == 2
MaxCommands == 2
MaxPollSteps == 30
MaxMounts == 1
MaxSearches == 2
MaxOverlap == 2

None == [none |-> TRUE]

----------------------------------------------------------------------------
(* Calendar arithmetic of the JavaScript Date object (proleptic Gregorian) *)

HoursPerDay == 24

\* Day number (days since 1970-01-01) of the civil date y-m-d.  d may lie
\* outside the month: the result is linear in d, which is how Date
\* normalises an overflowing day-of-month.
DaysFromCivil(y, m, d) ==
    LET yy  == IF m <= 2 THEN y - 1 ELSE y
        era == yy \div 400
        yoe == yy - era * 400
        mp  == IF m > 2 THEN m - 3 ELSE m + 9
        doy == (153 * mp + 2) \div 5 + d - 1
        doe == yoe * 365 + yoe \div 4 - yoe \div 100 + doy
    IN  era * 146097 + doe - 719468

\* Civil date of a day number.
CivilFromDays(z) ==
    LET zz  == z + 719468
        era == zz \div 146097
        doe == zz - era * 146097
        yoe == (doe - doe \div 1460 + doe \div 36524 - doe \div 146096) \div 365
        doy == doe - (365 * yoe + yoe \div 4 - yoe \div 100)
        mp  == (5 * doy + 2) \div 153
        dd  == doy - (153 * mp + 2) \div 5 + 1
        mm  == IF mp < 10 THEN mp + 3 ELSE mp - 9
        yy  == yoe + era * 400 + (IF mm <= 2 THEN 1 ELSE 0)
    IN  [y |-> yy, m |-> mm, d |-> dd]

\* Local calendar fields of an instant (getFullYear/getMonth/getDate).
LocalDayNumber(t) == (t + tz) \div HoursPerDay
LocalDate(t) == CivilFromDays(LocalDayNumber(t))
LocalHour(t) == (t + tz) % HoursPerDay

\* new Date(y, m, d, h) : the instant of a local wall-clock time.
LocalInstant(y, m, d, h) == DaysFromCivil(y, m, d) * HoursPerDay + h - tz

\* the weekday counted from Monday = 0
GetDay_MondayFirst(t) == (LocalDayNumber(t) + 3) % 7

\* Date.prototype.getDay : local weekday, Sunday = 0 (1970-01-01 was a
\* Thursday).
GetDay(t) == (LocalDayNumber(t) + 4) % 7

\* currentDate.setDate(currentDate.getDate() + 1) : the next local day at
\* the same local time of day.
SetDatePlusOne(t) ==
    LET c == LocalDate(t) IN LocalInstant(c.y, c.m, c.d + 1, LocalHour(t))

\* date.toISOString().split('T')[0] : the UTC calendar date of the instant.
ToISODateString(t) == CivilFromDays(t \div HoursPerDay)

\* new Date("YYYY-MM-DD") : a date-only string is parsed as UTC midnight.
ParseDateOnly(s) == DaysFromCivil(s.y, s.m, s.d) * HoursPerDay

\* the "T00:00:00" suffix lost: the string is parsed as UTC midnight
ParseLocalMidnight_UTC(s) == ParseDateOnly(s)

\* new Date("YYYY-MM-DD" + "T00:00:00") : a date-time string without a zone
\* is parsed as local time.
ParseLocalMidnight(s) == LocalInstant(s.y, s.m, s.d, 0)

\* date-fns startOfDay / isSameDay / startOfMonth / endOfMonth (local time).
StartOfDay(t) == LET c == LocalDate(t) IN LocalInstant(c.y, c.m, c.d, 0)

\* the two instants compared by their UTC day
IsSameDay_UTC(a, b) == a \div HoursPerDay = b \div HoursPerDay

IsSameDay(a, b) == StartOfDay(a) = StartOfDay(b)

StartOfMonth(t) == LET c == LocalDate(t) IN LocalInstant(c.y, c.m, 1, 0)

\* day 0 of the next month is the last day of this month
EndOfMonth(t) == LET c == LocalDate(t) IN LocalInstant(c.y, c.m + 1, 0, 23)

\* comparison of two values of a column of type date
DateLE(a, b) ==
    \/ a.y < b.y
    \/ a.y = b.y /\ a.m < b.m
    \/ a.y = b.y /\ a.m = b.m /\ a.d <= b.d

----------------------------------------------------------------------------
(* Event materializer *)

\* the materializer pushing onto the stored list
NewEventList_Stored(stored) == stored

\* const events: CalendarEvent[] = []  -- the local list the materializer
\* fills; it shadows the component state of the same name.
NewEventList(stored) == << >>

\* subjects.forEach(...) for one value of currentDate
RECURSIVE SubjectsOnDay(_, _, _)
SubjectsOnDay(subjects, currentDate, i) ==
    IF i > Len(subjects) THEN << >>
    ELSE (IF GetDay(currentDate) = subjects[i].day_of_week
          THEN << [type |-> "subject", data |-> subjects[i],
                   date |-> currentDate] >>
          ELSE << >>)
         \o SubjectsOnDay(subjects, currentDate, i + 1)

\* the loop with the bound excluded: while (currentDate < monthEnd)
RECURSIVE SubjectEvents_Exclusive(_, _, _, _)
SubjectEvents_Exclusive(acc, subjects, currentDate, monthEnd) ==
    IF currentDate < monthEnd
    THEN SubjectEvents_Exclusive(acc \o SubjectsOnDay(subjects, currentDate, 1),
                                 subjects, SetDatePlusOne(currentDate), monthEnd)
    ELSE acc

\* while (currentDate <= monthEnd) { ...; currentDate.setDate(+1) }
RECURSIVE SubjectEvents(_, _, _, _)
SubjectEvents(acc, subjects, currentDate, monthEnd) ==
    IF currentDate <= monthEnd
    THEN SubjectEvents(acc \o SubjectsOnDay(subjects, currentDate, 1),
                       subjects, SetDatePlusOne(currentDate), monthEnd)
    ELSE acc

\* the date of a task occurrence: the calendar page appends "T00:00:00",
\* the calendar widget passes the plain date string to new Date
TaskEventDate(component, due_date) ==
    IF component = "CalendarPage"
    THEN ParseLocalMidnight(due_date)
    ELSE ParseDateOnly(due_date)

\* tasks.forEach(task => events.push({type: "task", ...}))
TaskEvents(component, tasks) ==
    [i \in 1..Len(tasks) |->
        [type |-> "task", data |-> tasks[i],
         date |-> TaskEventDate(component, tasks[i].due_date)]]

\* the materializer dropping the tasks that are due outside the range
generateCalendarEvents_InRange(component, stored, subjects, tasks, monthStart, monthEnd) ==
    SubjectEvents(NewEventList(stored), subjects, monthStart, monthEnd)
        \o SelectSeq(TaskEvents(component, tasks),
                     LAMBDA e : monthStart <= e.date /\ e.date <= monthEnd)

\* generateCalendarEvents of the component: the list handed to setEvents
generateCalendarEvents(component, stored, subjects, tasks, monthStart, monthEnd) ==
    SubjectEvents(NewEventList(stored), subjects, monthStart, monthEnd)
        \o TaskEvents(component, tasks)

----------------------------------------------------------------------------
(* Day bucketer and classifier *)

\* events.filter(event => isSameDay(event.date, date))
getEventsForDate(evs, date) ==
    SelectSeq(evs, LAMBDA e : IsSameDay(e.date, date))

\* the classifier taking a completed task for a pending one
ClassOfDay_AnyTask(dayEvents) ==
    LET idx == 1..Len(dayEvents)
        hasSubjects == \E i \in idx : dayEvents[i].type = "subject"
        hasTasks == \E i \in idx : dayEvents[i].type = "task"
    IN  IF Len(dayEvents) = 0 THEN "empty"
        ELSE IF hasSubjects /\ hasTasks THEN "mixed"
        ELSE IF hasSubjects THEN "class"
        ELSE IF hasTasks THEN "pending-task"
        ELSE "empty"

\* the classifier deciding by the first occurrence of the day
ClassOfDay_First(dayEvents) ==
    IF Len(dayEvents) = 0 THEN "empty"
    ELSE IF dayEvents[1].type = "subject" THEN "class"
    ELSE IF ~dayEvents[1].data.is_completed THEN "pending-task"
    ELSE "completed-task"

\* the visual class of a day's occurrences (the CSS class strings are
\* named by the state they mark)
ClassOfDay(dayEvents) ==
    LET idx == 1..Len(dayEvents)
        hasSubjects == \E i \in idx : dayEvents[i].type = "subject"
        hasTasks == \E i \in idx : /\ dayEvents[i].type = "task"
                                   /\ ~dayEvents[i].data.is_completed
        hasCompletedTasks == \E i \in idx : /\ dayEvents[i].type = "task"
                                            /\ dayEvents[i].data.is_completed
    IN  IF Len(dayEvents) = 0 THEN "empty"
        ELSE IF hasSubjects /\ hasTasks THEN "mixed"
        ELSE IF hasSubjects THEN "class"
        ELSE IF hasTasks THEN "pending-task"
        ELSE IF hasCompletedTasks THEN "completed-task"
        ELSE "empty"

getDateClassName(evs, date) == ClassOfDay(getEventsForDate(evs, date))

----------------------------------------------------------------------------
(* Gateway *)

\* .from("subjects").select("*")
SelectSubjects == dbSubjects

\* .from("tasks").select(...).gte("due_date", lo).lte("due_date", hi)
SelectTasks(lo, hi) ==
    SelectSeq(dbTasks, LAMBDA t : DateLE(lo, t.due_date) /\ DateLE(t.due_date, hi))

----------------------------------------------------------------------------
(* Input universes *)

Components == {"CalendarPage", "CalendarWidget"}

TZOffsets == {-5, 0, 7}

\* the offsets the materializer is run under as a function
MaterializerOffsets == {-5, 7}

D(y, m, d) == [y |-> y, m |-> m, d |-> d]

\* due dates at the ends of the months around March 2025
MonthEndDueDates == {D(2025, 2, 28), D(2025, 3, 1), D(2025, 4, 1)}

\* tasks for the materializer: due Monday 2025-03-03, pending or completed,
\* or due Friday 2025-02-28
WindowTasks == {<<D(2025, 3, 3), FALSE>>, <<D(2025, 3, 3), TRUE>>,
                <<D(2025, 2, 28), FALSE>>}

\* weekdays of the subjects for the materializer: Sunday, Monday, Friday
SubjectWeekdays == {0, 1, 5}

SubjectRow(id, dow) == [id |-> id, day_of_week |-> dow]

TaskRow(id, due, done) == [id |-> id, due_date |-> due, is_completed |-> done]

\* lists of rows with ids 1..n
SubjectLists(dows) ==
    UNION {{[i \in 1..n |-> SubjectRow(i, f[i])] : f \in [1..n -> dows]}
           : n \in 0..MaxSubjects}

TaskLists(values) ==
    UNION {{[i \in 1..n |-> TaskRow(i, f[i][1], f[i][2])]
            : f \in [1..n -> values]}
           : n \in 0..MaxTasks}

\* first day of the window of days of the ranges: 2025-02-27
WindowFirstDay == DaysFromCivil(2025, 2, 27)

\* the instants new Date() gives when the component is mounted, in UTC
\* hours: 2025-03-03T12:00Z
NowSet == {DaysFromCivil(2025, 3, 3) * HoursPerDay + 12}

\* days of the calendar grid the user may click (the grid hands the
\* handler the local midnight of the day)
ClickDays == {D(2025, 3, 1), D(2025, 4, 1)}

----------------------------------------------------------------------------
(* The calendar components *)

\* the permutations of 1..n
Permutations(n) == {f \in [1..n -> 1..n] : \A i \in 1..n : \E j \in 1..n : f[j] = i}

Remove(seq, i) == [j \in 1..(Len(seq) - 1) |-> IF j < i THEN seq[j] ELSE seq[j + 1]]

CallArgs(component, subjects, tasks, monthStart, monthEnd) ==
    [component |-> component, subjects |-> subjects, tasks |-> tasks,
     monthStart |-> monthStart, monthEnd |-> monthEnd]

\* a call of generateCalendarEvents: setEvents(events), with the arguments
\* of the call recorded
Materialize(component, subjects, tasks, monthStart, monthEnd) ==
    LET args == CallArgs(component, subjects, tasks, monthStart, monthEnd)
        result == generateCalendarEvents(component, events, subjects, tasks,
                                         monthStart, monthEnd)
    IN  /\ events' = result
        /\ lastArgs' = args
        /\ staleStore' = (events # << >> /\ events # result)

\* the component is mounted: useState initial values, and the effect
\* starts the first fetchData
Mount(c, at) ==
    /\ mounted' = c
    /\ selectedDate' = at
    /\ events' = << >>
    /\ selectedDayEvents' = << >>
    /\ isDayModalOpen' = FALSE
    /\ loading' = TRUE
    /\ inflight' = << at >>
    /\ lastArgs' = None
    /\ staleStore' = FALSE
    /\ UNCHANGED <<tz, dbSubjects, dbTasks, lastToast,
                   rendered>>
    /\ UNCHANGED <<pageVars, pollerVars, searchVars, dashboardVars>>

\* handleDateSelect(date), and the effect on selectedDate that starts
\* fetchData (the page sets loading; the widget does not)
SelectDate(day, most) ==
    LET date == LocalInstant(day.y, day.m, day.d, 0)
        dayEvents == getEventsForDate(events, date)
    IN  /\ ~loading
        /\ ~isDayModalOpen
        /\ Len(inflight) < most
        /\ selectedDate' = date
        /\ selectedDayEvents' = dayEvents
        /\ isDayModalOpen' = (Len(dayEvents) > 0)
        /\ loading' = (mounted = "CalendarPage")
        /\ inflight' = Append(inflight, date)
        /\ UNCHANGED <<tz, dbSubjects, dbTasks, mounted, events, lastToast,
                       lastArgs, staleStore,
                   rendered>>
    /\ UNCHANGED <<pageVars, pollerVars, searchVars, dashboardVars>>

HandleDateSelect(day) == SelectDate(day, MaxInflight)

\* fetchData: both gateway requests succeed
FetchDataResolve(i) ==
    /\ i \in 1..Len(inflight)
    /\ LET monthStart == StartOfMonth(inflight[i])
           monthEnd == EndOfMonth(inflight[i])
           subjectsData == SelectSubjects
           tasksData == SelectTasks(ToISODateString(monthStart),
                                    ToISODateString(monthEnd))
       IN  Materialize(mounted, subjectsData, tasksData, monthStart, monthEnd)
    /\ loading' = FALSE
    /\ inflight' = Remove(inflight, i)
    /\ UNCHANGED <<tz, dbSubjects, dbTasks, mounted, selectedDate,
                   selectedDayEvents, isDayModalOpen, lastToast,
                   rendered>>
    /\ UNCHANGED <<pageVars, pollerVars, searchVars, dashboardVars>>

\* fetchData: a gateway request returns an error
FetchDataReject_Retry(i) ==
    /\ i \in 1..Len(inflight)
    /\ lastToast' = "Gagal memuat data kalender"
    /\ loading' = TRUE
    /\ inflight' = Append(Remove(inflight, i), inflight[i])
    /\ UNCHANGED <<tz, dbSubjects, dbTasks, mounted, selectedDate, events,
                   selectedDayEvents, isDayModalOpen, lastArgs, staleStore,
                   rendered>>
    /\ UNCHANGED <<pageVars, pollerVars, searchVars, dashboardVars>>

FetchDataReject(i) ==
    /\ i \in 1..Len(inflight)
    /\ lastToast' = "Gagal memuat data kalender"
    /\ loading' = FALSE
    /\ inflight' = Remove(inflight, i)
    /\ UNCHANGED <<tz, dbSubjects, dbTasks, mounted, selectedDate, events,
                   selectedDayEvents, isDayModalOpen, lastArgs, staleStore,
                   rendered>>
    /\ UNCHANGED <<pageVars, pollerVars, searchVars, dashboardVars>>

\* onClose / onOpenChange(false) of the day dialog
CloseDayModal ==
    /\ isDayModalOpen
    /\ isDayModalOpen' = FALSE
    /\ rendered' = None
    /\ UNCHANGED <<tz, dbSubjects, dbTasks, mounted, selectedDate, events,
                   selectedDayEvents, loading, inflight, lastToast, lastArgs,
                   staleStore>>
    /\ UNCHANGED <<pageVars, pollerVars, searchVars, dashboardVars>>

\* the pages and forms before any of them is mounted
PagesIdle ==
    /\ dbClock = 0
    /\ lastCommand = None
    /\ pageSubjects = << >>
    /\ pageTasks = << >>
    /\ requests = << >>
    /\ toggleLog = << >>
    /\ taskForm = None
    /\ subjectForm = None

\* the notification hook before it is mounted
PollerIdle ==
    /\ now = 0
    /\ permission = "default"
    /\ browserPermission = "default"
    /\ promptPending = FALSE
    /\ hookMounted = FALSE
    /\ timers = {}
    /\ notifications = << >>
    /\ alerts = << >>
    /\ lastCheck = [n |-> 0]
    /\ mounts = 0

\* the dashboard before it is mounted
DashboardIdle ==
    /\ todaySubjects = << >>
    /\ tomorrowSubjects = << >>
    /\ upcomingTasks = << >>
    /\ dashboardLoading = TRUE

\* the search bar before it is used
SearchIdle ==
    /\ search = << >>
    /\ results = << >>
    /\ searches = << >>
    /\ debounce = None
    /\ lastSearch = None

Init ==
    /\ tz \in TZOffsets
    /\ dbSubjects \in SubjectLists({6})
    /\ dbTasks \in TaskLists(MonthEndDueDates \X {FALSE})
    /\ mounted \in Components
    /\ selectedDate \in NowSet
    /\ events = << >>
    /\ selectedDayEvents = << >>
    /\ isDayModalOpen = FALSE
    /\ loading = TRUE
    /\ inflight = << selectedDate >>
    /\ lastToast = "none"
    /\ lastArgs = None
    /\ staleStore = FALSE
    /\ PagesIdle
    /\ PollerIdle
    /\ SearchIdle
    /\ DashboardIdle
    /\ rendered = None

Next ==
    \/ \E c \in Components, at \in NowSet : Mount(c, at)
    \/ \E day \in ClickDays : HandleDateSelect(day)
    \/ \E i \in 1..MaxInflight : FetchDataResolve(i)
    \/ \E i \in 1..MaxInflight : FetchDataReject(i)
    \/ CloseDayModal

Spec == Init /\ [][Next]_vars

----------------------------------------------------------------------------
(* The materializer as a function: inputs drawn from bounded sets *)

\* ranges of calendar dates inside the window, each date a local midnight
WindowRanges ==
    {<<LocalInstant(1970, 1, 1 + WindowFirstDay + x[1], 0),
       LocalInstant(1970, 1, 1 + WindowFirstDay + x[2], 0)>> :
        x \in {y \in (0..WindowDays) \X (0..WindowDays) : y[1] <= y[2]}}

\* the range of the end-to-end scenario, [2025-03-01, 2025-03-07]
ScenarioRange == <<LocalInstant(2025, 3, 1, 0), LocalInstant(2025, 3, 7, 0)>>

\* a range longer than a week, [2025-02-27, 2025-03-08], that ends with
\* the last hour of its last day, as endOfMonth does
LongRange == <<LocalInstant(2025, 2, 27, 0), LocalInstant(2025, 3, 8, 23)>>

GenerateCalendarEventsCall(monthStart, monthEnd) ==
    /\ Materialize(mounted, dbSubjects, dbTasks, monthStart, monthEnd)
    /\ UNCHANGED <<tz, dbSubjects, dbTasks, mounted, selectedDate,
                   selectedDayEvents, isDayModalOpen, loading, inflight,
                   lastToast,
                   rendered>>
    /\ UNCHANGED <<pageVars, pollerVars, searchVars, dashboardVars>>

InitMaterializer ==
    /\ tz \in MaterializerOffsets
    /\ dbSubjects \in SubjectLists(SubjectWeekdays)
    /\ dbTasks \in TaskLists(WindowTasks)
    /\ mounted \in Components
    /\ selectedDate = LocalInstant(2025, 3, 1, 0)
    /\ events = << >>
    /\ selectedDayEvents = << >>
    /\ isDayModalOpen = FALSE
    /\ loading = FALSE
    /\ inflight = << >>
    /\ lastToast = "none"
    /\ lastArgs = None
    /\ staleStore = FALSE
    /\ PagesIdle
    /\ PollerIdle
    /\ SearchIdle
    /\ DashboardIdle
    /\ rendered = None

NextMaterializer ==
    \E r \in WindowRanges \cup {ScenarioRange, LongRange} :
        GenerateCalendarEventsCall(r[1], r[2])

SpecMaterializer == InitMaterializer /\ [][NextMaterializer]_vars

----------------------------------------------------------------------------
(* The gateway: commands on the tables subjects and tasks *)

\* SQL NULL of a reference column (the ids of rows are positive)
Null == 0

\* a time string: "" is << >>, "HH:MM" is <<h, m>>, and "HH:MM:SS", the
\* text of a value of a column of type TIME, is <<h, m, s>>
StoredTime(t) == IF Len(t) = 2 THEN t \o <<0>> ELSE t

\* a < b on strings whose fields are zero-padded numbers: the first
\* differing field decides, and a proper prefix is the smaller string
StrLess(a, b) ==
    \/ \E k \in 1..Len(a) :
          /\ k <= Len(b)
          /\ a[k] < b[k]
          /\ \A j \in 1..(k - 1) : a[j] = b[j]
    \/ /\ Len(a) < Len(b)
       /\ \A j \in 1..Len(a) : a[j] = b[j]

\* a row of table subjects (name, location and color are one field here)
SubjectRecord(id, name, dow, start, end) ==
    [id |-> id, name |-> name, day_of_week |-> dow,
     start_time |-> StoredTime(start), end_time |-> StoredTime(end)]

\* a row of table tasks
TaskRecord(id, subject_id, title, due, priority, done, stamp) ==
    [id |-> id, subject_id |-> subject_id, title |-> title,
     description |-> "", due_date |-> due, priority |-> priority,
     is_completed |-> done, created_at |-> stamp, updated_at |-> stamp]

\* the rows in an order in which no row comes before one that precedes it
OrderBy(rows, before) ==
    LET n == Len(rows)
        p == CHOOSE f \in Permutations(n) :
                 \A i \in 1..n : \A j \in (i + 1)..n :
                     <<rows[f[j]], rows[f[i]]>> \notin before
    IN  [i \in 1..n |-> rows[p[i]]]

\* the pairs of rows of a table
RowPairs(rows) ==
    {<<rows[i], rows[j]>> : i \in 1..Len(rows), j \in 1..Len(rows)}

\* a fresh primary key (gen_random_uuid())
FreshId(rows) ==
    1 + (CHOOSE m \in {0} \cup {rows[i].id : i \in 1..Len(rows)} :
             \A i \in 1..Len(rows) : rows[i].id <= m)

\* the values of a row after UPDATE ... SET payload, with the trigger that
\* sets updated_at to now()
UpdatedRow(row, payload, stamp) ==
    [f \in DOMAIN row |->
        IF f = "updated_at" THEN stamp
        ELSE IF f \in DOMAIN payload THEN payload[f]
        ELSE row[f]]

\* delete from subjects where id = id; the foreign key of tasks.subject_id
\* is ON DELETE CASCADE
GatewayDeleteSubject(id) ==
    /\ dbSubjects' = SelectSeq(dbSubjects, LAMBDA s : s.id # id)
    /\ dbTasks' = SelectSeq(dbTasks, LAMBDA t : t.subject_id # id)
    /\ dbClock' = dbClock + 1
    /\ lastCommand' = [op |-> "delete", table |-> "subjects", id |-> id]

\* insert into subjects values (payload)
GatewayInsertSubject(payload) ==
    /\ dbSubjects' = Append(dbSubjects,
           SubjectRecord(FreshId(dbSubjects), payload.name,
                         payload.day_of_week, payload.start_time,
                         payload.end_time))
    /\ dbClock' = dbClock + 1
    /\ lastCommand' = [op |-> "insert", table |-> "subjects",
                       payload |-> payload]

\* update subjects set payload where id = id
GatewayUpdateSubject(id, payload) ==
    /\ dbSubjects' = [i \in 1..Len(dbSubjects) |->
           IF dbSubjects[i].id = id
           THEN SubjectRecord(id, payload.name, payload.day_of_week,
                              payload.start_time, payload.end_time)
           ELSE dbSubjects[i]]
    /\ dbClock' = dbClock + 1
    /\ lastCommand' = [op |-> "update", table |-> "subjects", id |-> id,
                       payload |-> payload]

\* update tasks set payload where id = id
GatewayUpdateTask(id, payload, source) ==
    /\ dbTasks' = [i \in 1..Len(dbTasks) |->
           IF dbTasks[i].id = id
           THEN UpdatedRow(dbTasks[i], payload, dbClock + 1)
           ELSE dbTasks[i]]
    /\ dbClock' = dbClock + 1
    /\ lastCommand' = [op |-> "update", table |-> "tasks", id |-> id,
                       payload |-> payload, source |-> source]

\* insert into tasks values (payload): a column the payload leaves out
\* takes its default
GatewayInsertTask(payload, source) ==
    /\ dbTasks' = Append(dbTasks,
           TaskRecord(FreshId(dbTasks), payload.subject_id, payload.title,
                      payload.due_date,
                      IF "priority" \in DOMAIN payload
                      THEN payload.priority ELSE 1,
                      IF "is_completed" \in DOMAIN payload
                      THEN payload.is_completed ELSE FALSE,
                      dbClock + 1))
    /\ dbClock' = dbClock + 1
    /\ lastCommand' = [op |-> "insert", table |-> "tasks",
                       payload |-> payload, source |-> source]

\* delete from tasks where id = id
GatewayDeleteTask(id) ==
    /\ dbTasks' = SelectSeq(dbTasks, LAMBDA t : t.id # id)
    /\ dbClock' = dbClock + 1
    /\ lastCommand' = [op |-> "delete", table |-> "tasks", id |-> id]

\* the commands the pages have sent and the gateway has not answered
PendingCommands ==
    Cardinality({r \in 1..Len(requests) :
                    requests[r].op \notin {"fetchSubjects", "fetchTasks",
                                             "fetchDashboardData"}})

\* a page may send one more command
MaySend ==
    /\ Len(requests) < MaxRequests
    /\ dbClock + PendingCommands < MaxCommands

\* select * from subjects order by day_of_week, start_time
SubjectBefore(a, b) ==
    \/ a.day_of_week < b.day_of_week
    \/ a.day_of_week = b.day_of_week /\ StrLess(a.start_time, b.start_time)

SelectSubjectsOrdered ==
    OrderBy(dbSubjects,
            {pair \in RowPairs(dbSubjects) : SubjectBefore(pair[1], pair[2])})

----------------------------------------------------------------------------
(* SubjectsPage *)

\* the delete button of a subject card, confirmed in the dialog
DeleteSubjectStart(i) ==
    /\ i \in 1..Len(pageSubjects)
    /\ MaySend
    /\ requests' = Append(requests, [op |-> "deleteSubject",
                                     id |-> pageSubjects[i].id])
    /\ UNCHANGED <<tz, dbSubjects, dbTasks, lastToast, calendarVars, dbClock,
                   lastCommand, pageSubjects, pageTasks, toggleLog, taskForm,
                   subjectForm, pollerVars, searchVars, dashboardVars,
                   rendered>>

\* deleteSubject: the gateway reports success
DeleteSubjectResolve(r) ==
    /\ r \in 1..Len(requests)
    /\ requests[r].op = "deleteSubject"
    /\ GatewayDeleteSubject(requests[r].id)
    /\ pageSubjects' = SelectSeq(pageSubjects, LAMBDA s : s.id # requests[r].id)
    /\ lastToast' = "Mata pelajaran berhasil dihapus"
    /\ requests' = Remove(requests, r)
    /\ UNCHANGED <<tz, calendarVars, pageTasks, toggleLog, taskForm,
                   subjectForm, pollerVars, searchVars, dashboardVars,
                   rendered>>

\* deleteSubject: the gateway returns an error
DeleteSubjectReject(r) ==
    /\ r \in 1..Len(requests)
    /\ requests[r].op = "deleteSubject"
    /\ lastToast' = "Gagal menghapus mata pelajaran"
    /\ requests' = Remove(requests, r)
    /\ UNCHANGED <<tz, dbSubjects, dbTasks, calendarVars, dbClock, lastCommand,
                   pageSubjects, pageTasks, toggleLog, taskForm, subjectForm,
                   pollerVars, searchVars, dashboardVars,
                   rendered>>

\* fetchSubjects: the gateway returns the rows
FetchSubjectsResolve(r) ==
    /\ r \in 1..Len(requests)
    /\ requests[r].op = "fetchSubjects"
    /\ pageSubjects' = SelectSubjectsOrdered
    /\ requests' = Remove(requests, r)
    /\ UNCHANGED <<tz, dbSubjects, dbTasks, lastToast, calendarVars, dbClock,
                   lastCommand, pageTasks, toggleLog, taskForm, subjectForm,
                   pollerVars, searchVars, dashboardVars,
                   rendered>>

\* fetchSubjects: the gateway returns an error
FetchSubjectsReject(r) ==
    /\ r \in 1..Len(requests)
    /\ requests[r].op = "fetchSubjects"
    /\ lastToast' = "Gagal memuat mata pelajaran"
    /\ requests' = Remove(requests, r)
    /\ UNCHANGED <<tz, dbSubjects, dbTasks, calendarVars, dbClock, lastCommand,
                   pageSubjects, pageTasks, toggleLog, taskForm, subjectForm,
                   pollerVars, searchVars, dashboardVars,
                   rendered>>

----------------------------------------------------------------------------
(* SubjectForm *)

\* validateTimeRange(): the two field values compared as strings
ValidateTimeRange(startTime, endTime) ==
    IF startTime # << >> /\ endTime # << >>
    THEN StrLess(startTime, endTime)
    ELSE TRUE

\* subjectSchema: the required fields are not empty
SubjectSchemaAccepts(values) ==
    /\ values.name # ""
    /\ values.start_time # << >>
    /\ values.end_time # << >>

\* the dialog opens with the form, for a new subject (i = 0) or for the
\* subject of a card: defaultValues
OpenSubjectForm(i) ==
    /\ subjectForm = None
    /\ i \in 0..Len(pageSubjects)
    /\ subjectForm' =
          IF i = 0
          THEN [subject |-> None, name |-> "S", day_of_week |-> 1,
                start_time |-> << >>, end_time |-> << >>,
                endTimeError |-> FALSE]
          ELSE [subject |-> pageSubjects[i], name |-> pageSubjects[i].name,
                day_of_week |-> pageSubjects[i].day_of_week,
                start_time |-> pageSubjects[i].start_time,
                end_time |-> pageSubjects[i].end_time,
                endTimeError |-> FALSE]
    /\ UNCHANGED <<tz, dbSubjects, dbTasks, lastToast, calendarVars, dbClock,
                   lastCommand, pageSubjects, pageTasks, requests, toggleLog,
                   taskForm, pollerVars, searchVars, dashboardVars,
                   rendered>>

\* the start_time input changes: field.onChange only
SetStartTime(v) ==
    /\ subjectForm # None
    /\ subjectForm' = [subjectForm EXCEPT !.start_time = v]
    /\ UNCHANGED <<tz, dbSubjects, dbTasks, lastToast, calendarVars, dbClock,
                   lastCommand, pageSubjects, pageTasks, requests, toggleLog,
                   taskForm, pollerVars, searchVars, dashboardVars,
                   rendered>>

\* the end_time input changes: field.onChange, then the delayed
\* validation sets or clears the error of the field
SetEndTime(v) ==
    /\ subjectForm # None
    /\ subjectForm' = [subjectForm EXCEPT
          !.end_time = v,
          !.endTimeError = ~ValidateTimeRange(subjectForm.start_time, v)]
    /\ UNCHANGED <<tz, dbSubjects, dbTasks, lastToast, calendarVars, dbClock,
                   lastCommand, pageSubjects, pageTasks, requests, toggleLog,
                   taskForm, pollerVars, searchVars, dashboardVars,
                   rendered>>

\* the submit button is enabled when validateTimeRange() holds of the
\* current values (the form is taken to be rendered after every change)
\* and handleSubmit calls onSubmit when the schema accepts the values
SubjectFormCanSubmit ==
    /\ subjectForm # None
    /\ ValidateTimeRange(subjectForm.start_time, subjectForm.end_time)
    /\ SubjectSchemaAccepts(subjectForm)

SubjectData ==
    [name |-> subjectForm.name, day_of_week |-> subjectForm.day_of_week,
     start_time |-> subjectForm.start_time,
     end_time |-> subjectForm.end_time]

\* onSubmit: the gateway reports success; onSuccess() starts
\* fetchSubjects and closes the dialog
SubjectFormSubmit ==
    /\ SubjectFormCanSubmit
    /\ MaySend
    /\ IF subjectForm.subject # None
       THEN /\ GatewayUpdateSubject(subjectForm.subject.id, SubjectData)
            /\ lastToast' = "Mata pelajaran berhasil diperbarui"
       ELSE /\ GatewayInsertSubject(SubjectData)
            /\ lastToast' = "Mata pelajaran berhasil ditambahkan"
    /\ requests' = Append(requests, [op |-> "fetchSubjects"])
    /\ subjectForm' = None
    /\ UNCHANGED <<tz, dbTasks, calendarVars, pageSubjects, pageTasks,
                   toggleLog, taskForm, pollerVars, searchVars, dashboardVars,
                   rendered>>

\* onSubmit: the gateway returns an error
SubjectFormSubmitFail ==
    /\ SubjectFormCanSubmit
    /\ lastToast' = "Terjadi kesalahan"
    /\ UNCHANGED <<tz, dbSubjects, dbTasks, calendarVars, pageVars,
                   pollerVars, searchVars, dashboardVars,
                   rendered>>

\* onCancel
CancelSubjectForm ==
    /\ subjectForm # None
    /\ subjectForm' = None
    /\ UNCHANGED <<tz, dbSubjects, dbTasks, lastToast, calendarVars, dbClock,
                   lastCommand, pageSubjects, pageTasks, requests, toggleLog,
                   taskForm, pollerVars, searchVars, dashboardVars,
                   rendered>>

\* values of the time inputs
TimeInputs == {<<8, 30>>, <<9, 0>>}

\* references of the tasks to the subjects
SubjectRefs == {Null} \cup (1..MaxSubjects + 1)

\* the subjects of the user when the page is mounted
StoredSubjects(most) ==
    {[i \in 1..n |-> SubjectRecord(i, "S", 1, <<8, 0>>, <<9, 0>>)] :
        n \in 1..most}

\* the calendar components are not mounted
CalendarIdle ==
    /\ mounted = "CalendarPage"
    /\ selectedDate = LocalInstant(2025, 3, 1, 0)
    /\ events = << >>
    /\ selectedDayEvents = << >>
    /\ isDayModalOpen = FALSE
    /\ loading = FALSE
    /\ inflight = << >>
    /\ lastArgs = None
    /\ staleStore = FALSE

\* SubjectsPage after it is mounted: fetchSubjects awaits the gateway
SubjectsPageMounted ==
    /\ lastToast = "none"
    /\ dbClock = 0
    /\ lastCommand = None
    /\ pageSubjects = << >>
    /\ pageTasks = << >>
    /\ requests = << [op |-> "fetchSubjects"] >>
    /\ toggleLog = << >>
    /\ taskForm = None
    /\ subjectForm = None

InitSubjects ==
    /\ tz = 7
    /\ dbSubjects \in StoredSubjects(MaxSubjects + 1)
    /\ \E n \in 0..MaxTasks : \E ref \in [1..n -> SubjectRefs] :
          dbTasks = [i \in 1..n |->
                        TaskRecord(i, ref[i], "T", D(2025, 3, 3), 1, FALSE, 0)]
    /\ CalendarIdle
    /\ SubjectsPageMounted
    /\ PollerIdle
    /\ SearchIdle
    /\ DashboardIdle
    /\ rendered = None

NextSubjects ==
    \/ \E i \in 1..MaxSubjects + 1 : DeleteSubjectStart(i)
    \/ \E r \in 1..MaxRequests : DeleteSubjectResolve(r)
    \/ \E r \in 1..MaxRequests : DeleteSubjectReject(r)
    \/ \E r \in 1..MaxRequests : FetchSubjectsResolve(r)
    \/ \E r \in 1..MaxRequests : FetchSubjectsReject(r)

SpecSubjects == InitSubjects /\ [][NextSubjects]_vars

InitSubjectForm ==
    /\ tz = 7
    /\ dbSubjects \in StoredSubjects(MaxSubjects)
    /\ dbTasks = << >>
    /\ CalendarIdle
    /\ SubjectsPageMounted
    /\ PollerIdle
    /\ SearchIdle
    /\ DashboardIdle
    /\ rendered = None

NextSubjectForm ==
    \/ \E r \in 1..MaxRequests : FetchSubjectsResolve(r)
    \/ \E r \in 1..MaxRequests : FetchSubjectsReject(r)
    \/ \E i \in 0..MaxSubjects + MaxCommands : OpenSubjectForm(i)
    \/ \E v \in TimeInputs : SetStartTime(v)
    \/ \E v \in TimeInputs : SetEndTime(v)
    \/ SubjectFormSubmit
    \/ SubjectFormSubmitFail
    \/ CancelSubjectForm

SpecSubjectForm == InitSubjectForm /\ [][NextSubjectForm]_vars

----------------------------------------------------------------------------
(* TasksPage *)

\* a date string before another
DateBefore(a, b) == a # b /\ DaysFromCivil(a.y, a.m, a.d) < DaysFromCivil(b.y, b.m, b.d)

\* select * from tasks order by due_date, priority desc (the joined
\* columns subjects(name, color) are shown only and left out)
TaskBefore(a, b) ==
    \/ DateBefore(a.due_date, b.due_date)
    \/ a.due_date = b.due_date /\ a.priority > b.priority

SelectTasksOrdered ==
    OrderBy(dbTasks,
            {pair \in RowPairs(dbTasks) : TaskBefore(pair[1], pair[2])})

\* the row with the id, or None
RowOf(rows, id) ==
    IF \E i \in 1..Len(rows) : rows[i].id = id
    THEN rows[CHOOSE i \in 1..Len(rows) : rows[i].id = id]
    ELSE None

\* fetchTasks: the gateway returns the rows
FetchTasksResolve(r) ==
    /\ r \in 1..Len(requests)
    /\ requests[r].op = "fetchTasks"
    /\ pageTasks' = SelectTasksOrdered
    /\ requests' = Remove(requests, r)
    /\ UNCHANGED <<tz, dbSubjects, dbTasks, lastToast, calendarVars, dbClock,
                   lastCommand, pageSubjects, toggleLog, taskForm,
                   subjectForm, pollerVars, searchVars, dashboardVars,
                   rendered>>

\* fetchTasks: the gateway returns an error
FetchTasksReject(r) ==
    /\ r \in 1..Len(requests)
    /\ requests[r].op = "fetchTasks"
    /\ lastToast' = "Gagal memuat tugas"
    /\ requests' = Remove(requests, r)
    /\ UNCHANGED <<tz, dbSubjects, dbTasks, calendarVars, dbClock, lastCommand,
                   pageSubjects, pageTasks, toggleLog, taskForm, subjectForm,
                   pollerVars, searchVars, dashboardVars,
                   rendered>>

\* the value toggleTaskComplete sends: !task.is_completed
ToggledValue_Done(task) == TRUE

ToggledValue(task) == ~task.is_completed

\* the checkbox of a task card: toggleTaskComplete(task) sends the update
ToggleTaskCompleteStart(i) ==
    /\ i \in 1..Len(pageTasks)
    /\ MaySend
    /\ requests' = Append(requests, [op |-> "toggleTask",
                                     task |-> pageTasks[i],
                                     issued |-> Len(toggleLog)])
    /\ UNCHANGED <<tz, dbSubjects, dbTasks, lastToast, calendarVars, dbClock,
                   lastCommand, pageSubjects, pageTasks, toggleLog, taskForm,
                   subjectForm, pollerVars, searchVars, dashboardVars,
                   rendered>>

\* toggleTaskComplete: the gateway reports success
ToggleTaskCompleteResolve(r) ==
    /\ r \in 1..Len(requests)
    /\ requests[r].op = "toggleTask"
    /\ LET task == requests[r].task IN
          /\ GatewayUpdateTask(task.id,
                               [is_completed |-> ToggledValue(task)],
                               "TasksPage")
          /\ pageTasks' = [i \in 1..Len(pageTasks) |->
                IF pageTasks[i].id = task.id
                THEN [pageTasks[i] EXCEPT
                         !.is_completed = ~pageTasks[i].is_completed]
                ELSE pageTasks[i]]
          /\ lastToast' = IF task.is_completed
                          THEN "Tugas ditandai belum selesai"
                          ELSE "Tugas ditandai selesai"
          /\ toggleLog' = Append(toggleLog,
                [id |-> task.id, issued |-> requests[r].issued,
                 dbBefore |-> dbTasks, localBefore |-> pageTasks,
                 dbAfter |-> dbTasks', localAfter |-> pageTasks'])
    /\ requests' = Remove(requests, r)
    /\ UNCHANGED <<tz, dbSubjects, calendarVars, pageSubjects, taskForm,
                   subjectForm, pollerVars, searchVars, dashboardVars,
                   rendered>>

\* toggleTaskComplete: the gateway returns an error
ToggleTaskCompleteReject(r) ==
    /\ r \in 1..Len(requests)
    /\ requests[r].op = "toggleTask"
    /\ lastToast' = "Gagal memperbarui status tugas"
    /\ requests' = Remove(requests, r)
    /\ UNCHANGED <<tz, dbSubjects, dbTasks, calendarVars, dbClock, lastCommand,
                   pageSubjects, pageTasks, toggleLog, taskForm, subjectForm,
                   pollerVars, searchVars, dashboardVars,
                   rendered>>

\* the delete button of a task card, confirmed in the dialog
DeleteTaskStart(i) ==
    /\ i \in 1..Len(pageTasks)
    /\ MaySend
    /\ requests' = Append(requests, [op |-> "deleteTask",
                                     id |-> pageTasks[i].id])
    /\ UNCHANGED <<tz, dbSubjects, dbTasks, lastToast, calendarVars, dbClock,
                   lastCommand, pageSubjects, pageTasks, toggleLog, taskForm,
                   subjectForm, pollerVars, searchVars, dashboardVars,
                   rendered>>

\* deleteTask: the gateway reports success
DeleteTaskResolve(r) ==
    /\ r \in 1..Len(requests)
    /\ requests[r].op = "deleteTask"
    /\ GatewayDeleteTask(requests[r].id)
    /\ pageTasks' = SelectSeq(pageTasks, LAMBDA t : t.id # requests[r].id)
    /\ lastToast' = "Tugas berhasil dihapus"
    /\ requests' = Remove(requests, r)
    /\ UNCHANGED <<tz, dbSubjects, calendarVars, pageSubjects, toggleLog,
                   taskForm, subjectForm, pollerVars, searchVars, dashboardVars,
                   rendered>>

\* deleteTask: the gateway returns an error
DeleteTaskReject(r) ==
    /\ r \in 1..Len(requests)
    /\ requests[r].op = "deleteTask"
    /\ lastToast' = "Gagal menghapus tugas"
    /\ requests' = Remove(requests, r)
    /\ UNCHANGED <<tz, dbSubjects, dbTasks, calendarVars, dbClock, lastCommand,
                   pageSubjects, pageTasks, toggleLog, taskForm, subjectForm,
                   pollerVars, searchVars, dashboardVars,
                   rendered>>

\* TasksPage after it is mounted: fetchTasks awaits the gateway
TasksPageMounted ==
    /\ lastToast = "none"
    /\ dbClock = 0
    /\ lastCommand = None
    /\ pageSubjects = << >>
    /\ pageTasks = << >>
    /\ requests = << [op |-> "fetchTasks"] >>
    /\ toggleLog = << >>
    /\ taskForm = None
    /\ subjectForm = None

\* the tasks of the user when the page is mounted
StoredTasks(most) ==
    {[i \in 1..n |-> TaskRecord(i, Null, "T", D(2025, 3, 2 + i), i, done[i], 0)] :
        n \in 1..most, done \in [1..most -> BOOLEAN]}

InitTasks ==
    /\ tz = 7
    /\ dbSubjects = << >>
    /\ dbTasks \in StoredTasks(MaxTasks)
    /\ CalendarIdle
    /\ TasksPageMounted
    /\ PollerIdle
    /\ SearchIdle
    /\ DashboardIdle
    /\ rendered = None

NextTasks ==
    \/ \E r \in 1..MaxRequests : FetchTasksResolve(r)
    \/ \E r \in 1..MaxRequests : FetchTasksReject(r)
    \/ \E i \in 1..MaxTasks : ToggleTaskCompleteStart(i)
    \/ \E r \in 1..MaxRequests : ToggleTaskCompleteResolve(r)
    \/ \E r \in 1..MaxRequests : ToggleTaskCompleteReject(r)
    \/ \E i \in 1..MaxTasks : DeleteTaskStart(i)
    \/ \E r \in 1..MaxRequests : DeleteTaskResolve(r)
    \/ \E r \in 1..MaxRequests : DeleteTaskReject(r)

SpecTasks == InitTasks /\ [][NextTasks]_vars

----------------------------------------------------------------------------
(* TaskForm *)

\* the dialog opens with the form, for a new task (i = 0) or for the task
\* of a card: defaultValues (the title is taken as typed in); the value of
\* the date field is << >> when undefined and <<t>> for the Date t
OpenTaskForm(i) ==
    /\ taskForm = None
    /\ i \in 0..Len(pageTasks)
    /\ taskForm' =
          IF i = 0
          THEN [task |-> None, title |-> "T", subject_id |-> Null,
                due_date |-> << >>, priority |-> 1]
          ELSE [task |-> pageTasks[i], title |-> pageTasks[i].title,
                subject_id |-> pageTasks[i].subject_id,
                due_date |-> << ParseDateOnly(pageTasks[i].due_date) >>,
                priority |-> pageTasks[i].priority]
    /\ UNCHANGED <<tz, dbSubjects, dbTasks, lastToast, calendarVars, dbClock,
                   lastCommand, pageSubjects, pageTasks, requests, toggleLog,
                   subjectForm, pollerVars, searchVars, dashboardVars,
                   rendered>>

\* a day is picked in the calendar of the form: the Date of its local
\* midnight
SelectDueDate(day) ==
    /\ taskForm # None
    /\ taskForm' = [taskForm EXCEPT
                       !.due_date = << LocalInstant(day.y, day.m, day.d, 0) >>]
    /\ UNCHANGED <<tz, dbSubjects, dbTasks, lastToast, calendarVars, dbClock,
                   lastCommand, pageSubjects, pageTasks, requests, toggleLog,
                   subjectForm, pollerVars, searchVars, dashboardVars,
                   rendered>>

\* a priority is picked
SelectPriority(p) ==
    /\ taskForm # None
    /\ taskForm' = [taskForm EXCEPT !.priority = p]
    /\ UNCHANGED <<tz, dbSubjects, dbTasks, lastToast, calendarVars, dbClock,
                   lastCommand, pageSubjects, pageTasks, requests, toggleLog,
                   subjectForm, pollerVars, searchVars, dashboardVars,
                   rendered>>

\* taskSchema: a title and a due date are required
TaskSchemaAccepts(values) ==
    /\ values.title # ""
    /\ values.due_date # << >>

\* taskData: the due date is formatted from the local year, month and day
TaskData ==
    [title |-> taskForm.title, subject_id |-> taskForm.subject_id,
     due_date |-> LocalDate(taskForm.due_date[1]),
     priority |-> taskForm.priority]

\* the payload of the insert: { ...taskData, is_completed: false }
TaskFormInsertPayload(taskData) ==
    [g \in (DOMAIN taskData) \cup {"is_completed"} |->
        IF g = "is_completed" THEN FALSE ELSE taskData[g]]

\* the payload of the update: taskData
TaskFormUpdatePayload_Completed(taskData) == TaskFormInsertPayload(taskData)

TaskFormUpdatePayload(taskData) == taskData

\* onSubmit: the gateway reports success; onSuccess() starts fetchTasks
\* and closes the dialog
TaskFormSubmit ==
    /\ taskForm # None
    /\ TaskSchemaAccepts(taskForm)
    /\ MaySend
    /\ IF taskForm.task # None
       THEN /\ GatewayUpdateTask(taskForm.task.id,
                                 TaskFormUpdatePayload(TaskData), "TaskForm")
            /\ lastToast' = "Tugas berhasil diperbarui"
       ELSE /\ GatewayInsertTask(TaskFormInsertPayload(TaskData), "TaskForm")
            /\ lastToast' = "Tugas berhasil ditambahkan"
    /\ requests' = Append(requests, [op |-> "fetchTasks"])
    /\ taskForm' = None
    /\ UNCHANGED <<tz, dbSubjects, calendarVars, pageSubjects, pageTasks,
                   toggleLog, subjectForm, pollerVars, searchVars, dashboardVars,
                   rendered>>

\* onSubmit: the gateway returns an error
TaskFormSubmitFail ==
    /\ taskForm # None
    /\ TaskSchemaAccepts(taskForm)
    /\ lastToast' = "Terjadi kesalahan"
    /\ UNCHANGED <<tz, dbSubjects, dbTasks, calendarVars, pageVars,
                   pollerVars, searchVars, dashboardVars,
                   rendered>>

\* onCancel
CancelTaskForm ==
    /\ taskForm # None
    /\ taskForm' = None
    /\ UNCHANGED <<tz, dbSubjects, dbTasks, lastToast, calendarVars, dbClock,
                   lastCommand, pageSubjects, pageTasks, requests, toggleLog,
                   subjectForm, pollerVars, searchVars, dashboardVars,
                   rendered>>

\* days picked in the calendar of the form
DueDateInputs == {D(2025, 4, 1)}

\* priorities picked in the form
PriorityInputs == {3}

\* UTC offsets of the browser
FormOffsets == {-5, 7}

InitTaskForm ==
    /\ tz \in FormOffsets
    /\ dbSubjects = << >>
    /\ dbTasks \in StoredTasks(1)
    /\ CalendarIdle
    /\ TasksPageMounted
    /\ PollerIdle
    /\ SearchIdle
    /\ DashboardIdle
    /\ rendered = None

NextTaskForm ==
    \/ \E r \in 1..MaxRequests : FetchTasksResolve(r)
    \/ \E i \in 0..MaxTasks + MaxCommands : OpenTaskForm(i)
    \/ \E day \in DueDateInputs : SelectDueDate(day)
    \/ \E p \in PriorityInputs : SelectPriority(p)
    \/ TaskFormSubmit
    \/ CancelTaskForm

SpecTaskForm == InitTaskForm /\ [][NextTaskForm]_vars

----------------------------------------------------------------------------
(* DayDetailModal in the calendar components *)

\* toggleTaskComplete(task) of the modal, the gateway reports success:
\* the update, the toast, and onClose()
ModalToggleTaskComplete(k) ==
    /\ isDayModalOpen
    /\ k \in 1..Len(selectedDayEvents)
    /\ selectedDayEvents[k].type = "task"
    /\ dbClock < MaxCommands
    /\ LET task == selectedDayEvents[k].data IN
          /\ GatewayUpdateTask(task.id,
                               [is_completed |-> ~task.is_completed],
                               "DayDetailModal")
          /\ lastToast' = IF task.is_completed
                          THEN "Tugas ditandai belum selesai"
                          ELSE "Tugas ditandai selesai"
    /\ isDayModalOpen' = FALSE
    /\ rendered' = None
    /\ UNCHANGED <<tz, dbSubjects, mounted, selectedDate, events,
                   selectedDayEvents, loading, inflight, lastArgs, staleStore,
                   pageSubjects, pageTasks, requests, toggleLog, taskForm,
                   subjectForm, pollerVars, searchVars, dashboardVars>>

\* toggleTaskComplete(task) of the modal, the gateway returns an error
ModalToggleTaskCompleteFail(k) ==
    /\ isDayModalOpen
    /\ k \in 1..Len(selectedDayEvents)
    /\ selectedDayEvents[k].type = "task"
    /\ lastToast' = "Gagal memperbarui status tugas"
    /\ UNCHANGED <<tz, dbSubjects, dbTasks, calendarVars, pageVars,
                   pollerVars, searchVars, dashboardVars,
                   rendered>>

\* days clicked in the calendar
ModalClickDays == {D(2025, 3, 3)}

\* a calendar component after it is mounted, with one task due on
\* 2025-03-03
InitModal ==
    /\ tz = 7
    /\ dbSubjects = << >>
    /\ \E done \in BOOLEAN :
          dbTasks = << TaskRecord(1, Null, "T", D(2025, 3, 3), 1, done, 0) >>
    /\ mounted \in Components
    /\ selectedDate \in NowSet
    /\ events = << >>
    /\ selectedDayEvents = << >>
    /\ isDayModalOpen = FALSE
    /\ loading = TRUE
    /\ inflight = << selectedDate >>
    /\ lastToast = "none"
    /\ lastArgs = None
    /\ staleStore = FALSE
    /\ PagesIdle
    /\ PollerIdle
    /\ SearchIdle
    /\ DashboardIdle
    /\ rendered = None

NextModal ==
    \/ \E day \in ModalClickDays : HandleDateSelect(day)
    \/ \E i \in 1..MaxInflight : FetchDataResolve(i)
    \/ \E i \in 1..MaxInflight : FetchDataReject(i)
    \/ CloseDayModal
    \/ \E k \in 1..MaxTasks : ModalToggleTaskComplete(k)
    \/ \E k \in 1..MaxTasks : ModalToggleTaskCompleteFail(k)

SpecModal == InitModal /\ [][NextModal]_vars

----------------------------------------------------------------------------
(* useNotifications: the notification poller *)

\* The browser clock of the hook counts half minutes, so that the
\* truncation of differenceInMinutes is visible.
HalfMinutesPerHour == 2 * 60

\* setInterval(checkUpcomingItems, 60000), in half minutes
PollInterval == 2

\* the whole hours of an instant, the unit of the calendar operators
HourOf(t) == t \div HalfMinutesPerHour

\* half minutes since the local midnight
LocalClock(t) == (t + tz * HalfMinutesPerHour) % (HoursPerDay * HalfMinutesPerHour)

GetHours(t) == LocalClock(t) \div HalfMinutesPerHour

GetMinutes(t) == (LocalClock(t) % HalfMinutesPerHour) \div 2

\* classTime = new Date(); classTime.setHours(hours, minutes, 0, 0)
SetHours(t, hours, minutes) == t - LocalClock(t) + (hours * 60 + minutes) * 2

\* differenceInMinutes(a, b): the whole minutes, truncated towards zero
DifferenceInMinutes_Up(a, b) == (a - b + 1) \div 2

DifferenceInMinutes(a, b) ==
    IF a >= b THEN (a - b) \div 2 ELSE 0 - ((b - a) \div 2)

\* minutesUntilClass > 0 && minutesUntilClass <= 15
ClassAlertDue(minutesUntilClass) ==
    minutesUntilClass > 0 /\ minutesUntilClass <= 15

\* classes starting in the next 15 minutes
ClassAlerts(t) ==
    LET today == SelectSeq(dbSubjects,
                           LAMBDA s : s.day_of_week = GetDay(HourOf(t)))
        minutesUntilClass(s) ==
            DifferenceInMinutes(SetHours(t, s.start_time[1], s.start_time[2]), t)
        soon == SelectSeq(today, LAMBDA s : ClassAlertDue(minutesUntilClass(s)))
    IN  [i \in 1..Len(soon) |->
            [type |-> "class", priority |-> "high", ref |-> soon[i].id,
             time |-> SetHours(t, soon[i].start_time[1], soon[i].start_time[2])]]

\* task.priority === 3 ? 'high' : task.priority === 2 ? 'medium' : 'low'
TaskAlertPriority(p) ==
    IF p = 3 THEN "high" ELSE IF p = 2 THEN "medium" ELSE "low"

\* select from tasks where due_date = date and is_completed = false
IncompleteTasksDue(date) ==
    SelectSeq(dbTasks, LAMBDA k : k.due_date = date /\ ~k.is_completed)

\* tasks due today: the date is today.toISOString().split('T')[0]
TaskAlerts(t) ==
    LET todayTasks == IncompleteTasksDue(ToISODateString(HourOf(t)))
    IN  [i \in 1..Len(todayTasks) |->
            [type |-> "task",
             priority |-> TaskAlertPriority(todayTasks[i].priority),
             ref |-> todayTasks[i].id, time |-> t]]

\* tasks due tomorrow, at 08:00: tomorrow is today with setDate(+1)
ReminderAlerts(t) ==
    LET tomorrowTasks ==
            IncompleteTasksDue(ToISODateString(SetDatePlusOne(HourOf(t))))
    IN  IF GetHours(t) = 8 /\ GetMinutes(t) = 0 /\ Len(tomorrowTasks) > 0
        THEN << [type |-> "reminder", priority |-> "medium",
                 ref |-> Len(tomorrowTasks), time |-> t] >>
        ELSE << >>

\* the items checkUpcomingItems hands to createNotification, in order
UpcomingItems(t) == ClassAlerts(t) \o TaskAlerts(t) \o ReminderAlerts(t)

\* createNotification: the notification is appended to the list and shown
\* as a toast, and as a browser notification when the permission held by
\* the callback is 'granted'
CreatedNotifications(items, held) ==
    [i \in 1..Len(items) |->
        [type |-> items[i].type, priority |-> items[i].priority,
         ref |-> items[i].ref, time |-> items[i].time,
         toast |-> TRUE, browser |-> (held = "granted")]]

\* the notifications of the checks the effect starts when it runs for
\* each of the permissions in turn
ChecksOfEffectRuns(held) ==
    IF held = << >> THEN << >>
    ELSE CreatedNotifications(UpcomingItems(now), held[1])
         \o (IF Len(held) > 1
             THEN CreatedNotifications(UpcomingItems(now), held[2])
             ELSE << >>)

\* the timers left by the cleanup of the effect: clearInterval(interval)
ClearedTimers(active) == {}

\* the effect has run for each of the permissions in turn: every run
\* starts checkUpcomingItems and sets the interval timer, and the cleanup
\* of the earlier run clears its timer
EffectRuns(held, active) ==
    LET created == ChecksOfEffectRuns(held) IN
    /\ notifications' = (IF hookMounted THEN notifications ELSE << >>) \o created
    /\ alerts' = alerts \o created
    /\ lastCheck' = [n |-> lastCheck.n + Len(held), at |-> now,
                     by |-> "effect",
                     created |-> CreatedNotifications(UpcomingItems(now),
                                                      held[Len(held)])]
    /\ timers' = (IF Len(held) > 1
                  THEN ClearedTimers(ClearedTimers(active) \cup {now + PollInterval})
                  ELSE ClearedTimers(active))
                 \cup {now + PollInterval}

\* the component with the hook is mounted: permission starts as
\* 'default'; the effect sets it to Notification.permission, asks for the
\* permission, checks and sets the timer; when the permission has changed
\* the effect runs again
MountHook ==
    /\ ~hookMounted
    /\ mounts < MaxMounts
    /\ hookMounted' = TRUE
    /\ mounts' = mounts + 1
    /\ permission' = browserPermission
    /\ promptPending' = (promptPending \/ browserPermission = "default")
    /\ EffectRuns(IF browserPermission = "default"
                  THEN << "default" >>
                  ELSE << "default", browserPermission >>, timers)
    /\ UNCHANGED <<tz, dbSubjects, dbTasks, lastToast, calendarVars, pageVars,
                   searchVars, dashboardVars,
                   now, browserPermission,
                   rendered>>

\* the user answers the permission prompt: requestPermission resolves,
\* setPermission(result), and the effect runs again when it has changed
AnswerPrompt(result) ==
    /\ promptPending
    /\ promptPending' = FALSE
    /\ browserPermission' = result
    /\ IF hookMounted /\ result # permission
       THEN /\ permission' = result
            /\ EffectRuns(<< result >>, timers)
       ELSE UNCHANGED <<permission, notifications, alerts, lastCheck, timers>>
    /\ UNCHANGED <<tz, dbSubjects, dbTasks, lastToast, calendarVars, pageVars,
                   searchVars, dashboardVars,
                   now, hookMounted, mounts,
                   rendered>>

\* the interval timer fires: checkUpcomingItems
Tick ==
    /\ now \in timers
    /\ LET created == CreatedNotifications(UpcomingItems(now), permission) IN
          /\ notifications' = notifications \o created
          /\ alerts' = alerts \o created
          /\ lastCheck' = [n |-> lastCheck.n + 1, at |-> now, by |-> "tick",
                           created |-> created]
    /\ timers' = (timers \ {now}) \cup {now + PollInterval}
    /\ UNCHANGED <<tz, dbSubjects, dbTasks, lastToast, calendarVars, pageVars,
                   searchVars, dashboardVars,
                   now, permission, browserPermission, promptPending,
                   hookMounted, mounts,
                   rendered>>

\* the component is unmounted: the cleanup of the effect
UnmountHook ==
    /\ hookMounted
    /\ hookMounted' = FALSE
    /\ timers' = ClearedTimers(timers)
    /\ UNCHANGED <<tz, dbSubjects, dbTasks, lastToast, calendarVars, pageVars,
                   searchVars, dashboardVars,
                   now, permission, browserPermission, promptPending,
                   notifications, alerts, lastCheck, mounts,
                   rendered>>

\* the earliest instant of the runs: 07:54:00 on Monday 2025-03-03
PollStart == LocalInstant(2025, 3, 3, 7) * HalfMinutesPerHour + 54 * 2

\* half a minute passes, once the timers due have fired; the runs follow
\* the hook while it is mounted and for one interval after its cleanup
AdvanceClock ==
    /\ now \notin timers
    /\ hookMounted \/ (lastCheck.n > 0 /\ now < lastCheck.at + PollInterval)
    /\ now < PollStart + MaxPollSteps
    /\ now' = now + 1
    /\ UNCHANGED <<tz, dbSubjects, dbTasks, lastToast, calendarVars, pageVars,
                   searchVars, dashboardVars,
                   permission, browserPermission, promptPending, hookMounted,
                   timers, notifications, alerts, lastCheck, mounts,
                   rendered>>

\* UTC offsets of the browser
PollerOffsets == {7, 9}

\* classes on Monday at 08:10 and at 07:55, and one on Tuesday at 08:05
PollerSubjects ==
    << SubjectRecord(1, "S", 1, <<8, 10>>, <<9, 0>>),
       SubjectRecord(2, "S", 2, <<8, 5>>, <<9, 0>>),
       SubjectRecord(3, "S", 1, <<7, 55>>, <<8, 0>>) >>

\* tasks due on 2025-03-03 (one of priority 3, one completed) and on
\* 2025-03-04
PollerTasks ==
    << TaskRecord(1, Null, "T", D(2025, 3, 3), 3, FALSE, 0),
       TaskRecord(2, Null, "T", D(2025, 3, 3), 1, TRUE, 0),
       TaskRecord(3, Null, "T", D(2025, 3, 4), 2, FALSE, 0) >>

InitPoller ==
    /\ tz \in PollerOffsets
    /\ dbSubjects = PollerSubjects
    /\ dbTasks = PollerTasks
    /\ lastToast = "none"
    /\ CalendarIdle
    /\ PagesIdle
    /\ now \in {PollStart, PollStart + 1}
    /\ permission = "default"
    /\ browserPermission \in {"default", "granted"}
    /\ promptPending = FALSE
    /\ hookMounted = FALSE
    /\ timers = {}
    /\ notifications = << >>
    /\ alerts = << >>
    /\ lastCheck = [n |-> 0]
    /\ mounts = 0
    /\ SearchIdle
    /\ DashboardIdle
    /\ rendered = None

NextPoller ==
    \/ MountHook
    \/ \E result \in {"granted", "denied"} : AnswerPrompt(result)
    \/ Tick
    \/ UnmountHook
    \/ AdvanceClock

SpecPoller == InitPoller /\ [][NextPoller]_vars

----------------------------------------------------------------------------
(* SearchBar *)

\* strings are sequences of characters here; the space is " "

\* search.trim()
Trim(term) ==
    LET inked == {i \in 1..Len(term) : term[i] # " "} IN
    IF inked = {} THEN << >>
    ELSE SubSeq(term,
                CHOOSE i \in inked : \A j \in inked : i <= j,
                CHOOSE i \in inked : \A j \in inked : i >= j)

\* the lower case of a character of the names
Lower(c) == CASE c = "M" -> "m" [] c = "F" -> "f" [] OTHER -> c

LowerCase(text) == [i \in 1..Len(text) |-> Lower(text[i])]

\* text ILIKE '%term%': the term occurs in the text, whatever the case
ILike(text, term) ==
    \E i \in 1..(Len(text) - Len(term) + 1) :
        SubSeq(LowerCase(text), i, i + Len(term) - 1) = LowerCase(term)

\* .limit(5)
SearchLimit == 5

Limit(rows, most) == SubSeq(rows, 1, IF Len(rows) < most THEN Len(rows) ELSE most)

\* the rows a query has returned, or none when it returned an error:
\* (data || [])
DataOrEmpty(rows, ok) == IF ok THEN rows ELSE << >>

\* searchData: the subjects and the tasks found, as search results
SearchResults(term, subjectsOk, tasksOk) ==
    LET subjects == DataOrEmpty(
            Limit(SelectSeq(dbSubjects, LAMBDA s : ILike(s.name, term)),
                  SearchLimit), subjectsOk)
        tasks == DataOrEmpty(
            Limit(SelectSeq(dbTasks, LAMBDA k : ILike(k.title, term)),
                  SearchLimit), tasksOk)
    IN  [i \in 1..Len(subjects) |->
            [id |-> subjects[i].id, title |-> subjects[i].name,
             type |-> "subject"]]
        \o [i \in 1..Len(tasks) |->
            [id |-> tasks[i].id, title |-> tasks[i].title, type |-> "task"]]

\* the effect on [search]: the cleanup clears the pending timeout; a term
\* shorter than 2 clears the results, any other sets the timeout
SearchEffect(term) ==
    IF Len(Trim(term)) < 2
    THEN /\ results' = << >>
         /\ debounce' = None
    ELSE /\ debounce' = term
         /\ UNCHANGED results

\* the input changes, setSearch(e.target.value), or a result is chosen,
\* setSearch("")
SetSearch(term) ==
    /\ term # search
    /\ search' = term
    /\ SearchEffect(term)
    /\ UNCHANGED <<tz, dbSubjects, dbTasks, lastToast, calendarVars, pageVars,
                   pollerVars, dashboardVars, searches, lastSearch,
                   rendered>>

\* the timeout of 300 ms fires: searchData sends its queries
DebounceFires ==
    /\ debounce # None
    /\ Len(searches) < MaxSearches
    /\ searches' = Append(searches, [term |-> debounce])
    /\ debounce' = None
    /\ UNCHANGED <<tz, dbSubjects, dbTasks, lastToast, calendarVars, pageVars,
                   pollerVars, dashboardVars, search, results, lastSearch,
                   rendered>>

\* both queries of a searchData call have returned rows: setResults
SearchDataResolve(r) ==
    /\ r \in 1..Len(searches)
    /\ results' = SearchResults(searches[r].term, TRUE, TRUE)
    /\ lastSearch' = [term |-> searches[r].term, subjectsOk |-> TRUE,
                      tasksOk |-> TRUE]
    /\ searches' = Remove(searches, r)
    /\ UNCHANGED <<tz, dbSubjects, dbTasks, lastToast, calendarVars, pageVars,
                   pollerVars, dashboardVars, search, debounce,
                   rendered>>

\* a query of a searchData call has returned an error: only data is read
\* from the response
SearchDataError(r, subjectsOk, tasksOk) ==
    /\ r \in 1..Len(searches)
    /\ ~(subjectsOk /\ tasksOk)
    /\ results' = SearchResults(searches[r].term, subjectsOk, tasksOk)
    /\ lastSearch' = [term |-> searches[r].term, subjectsOk |-> subjectsOk,
                      tasksOk |-> tasksOk]
    /\ searches' = Remove(searches, r)
    /\ UNCHANGED <<tz, dbSubjects, dbTasks, lastToast, calendarVars, pageVars,
                   pollerVars, dashboardVars, search, debounce,
                   rendered>>

\* the terms typed
SearchTerms ==
    { << >>, << "m" >>, << "m", " " >>, << "m", "a" >>, << "f", "i" >> }

\* a subject and two tasks to be found
SearchSubjects == << SubjectRecord(1, << "M", "a", "t" >>, 1, <<8, 0>>, <<9, 0>>) >>

SearchTasks ==
    << TaskRecord(1, Null, << "F", "i", "s" >>, D(2025, 3, 3), 2, FALSE, 0),
       TaskRecord(2, 1, << "m", "a" >>, D(2025, 3, 4), 2, FALSE, 0) >>

InitSearch ==
    /\ tz = 7
    /\ dbSubjects = SearchSubjects
    /\ dbTasks = SearchTasks
    /\ lastToast = "none"
    /\ CalendarIdle
    /\ PagesIdle
    /\ PollerIdle
    /\ SearchIdle
    /\ DashboardIdle
    /\ rendered = None

NextSearch ==
    \/ \E term \in SearchTerms : SetSearch(term)
    \/ DebounceFires
    \/ \E r \in 1..Len(searches) : SearchDataResolve(r)
    \/ \E r \in 1..Len(searches) : \E subjectsOk, tasksOk \in BOOLEAN :
          SearchDataError(r, subjectsOk, tasksOk)

SpecSearch == InitSearch /\ [][NextSearch]_vars

----------------------------------------------------------------------------
(* Row level security of subjects and tasks *)

\* the authenticated users
Users == {1, 2}

\* the policies of both tables: auth.uid() = user_id
OwnRow(uid, row) == uid = row.user_id

\* the rows a statement of the user can see or touch (USING)
RowsVisible(uid, rows) == SelectSeq(rows, LAMBDA row : OwnRow(uid, row))

\* the foreign key of tasks.subject_id: null, or the id of a subject; the
\* check of a reference is made without the row level policies
ReferenceHolds(ref) ==
    ref = Null \/ \E i \in 1..Len(dbSubjects) : dbSubjects[i].id = ref

\* what is left unchanged by a statement on the two tables
OwnershipFrame ==
    UNCHANGED <<tz, lastToast, calendarVars, dbClock, pageSubjects, pageTasks,
                requests, toggleLog, taskForm, subjectForm, pollerVars,
                searchVars, dashboardVars,
                   rendered>>

\* select from subjects / select *, subjects (name) from tasks
SelectAs(uid, table) ==
    /\ lastCommand' =
          [uid |-> uid, op |-> "select", table |-> table,
           returned |->
              IF table = "subjects" THEN RowsVisible(uid, dbSubjects)
              ELSE LET mine == RowsVisible(uid, dbTasks) IN
                   [i \in 1..Len(mine) |->
                       [task |-> mine[i],
                        subjects |-> SelectSeq(RowsVisible(uid, dbSubjects),
                                       LAMBDA s : s.id = mine[i].subject_id)]]]
    /\ UNCHANGED <<dbSubjects, dbTasks>>
    /\ OwnershipFrame

\* insert into subjects: WITH CHECK (auth.uid() = user_id)
InsertSubjectAs(uid, owner) ==
    /\ Len(dbSubjects) < MaxSubjects + 1
    /\ LET row == [id |-> FreshId(dbSubjects), user_id |-> owner, name |-> "S"]
       IN  /\ dbSubjects' = IF OwnRow(uid, row) THEN Append(dbSubjects, row)
                            ELSE dbSubjects
           /\ lastCommand' = [uid |-> uid, op |-> "insert",
                              table |-> "subjects",
                              returned |-> IF OwnRow(uid, row) THEN << row >>
                                           ELSE << >>]
    /\ UNCHANGED dbTasks
    /\ OwnershipFrame

\* insert into tasks: WITH CHECK (auth.uid() = user_id), and the foreign key
InsertTaskAs(uid, owner, ref) ==
    /\ Len(dbTasks) < MaxTasks
    /\ LET row == [id |-> FreshId(dbTasks), user_id |-> owner,
                   subject_id |-> ref, is_completed |-> FALSE]
           accepted == OwnRow(uid, row) /\ ReferenceHolds(ref)
       IN  /\ dbTasks' = IF accepted THEN Append(dbTasks, row) ELSE dbTasks
           /\ lastCommand' = [uid |-> uid, op |-> "insert", table |-> "tasks",
                              returned |-> IF accepted THEN << row >> ELSE << >>]
    /\ UNCHANGED dbSubjects
    /\ OwnershipFrame

\* update tasks set user_id, subject_id where id = id: USING
\* (auth.uid() = user_id); a policy FOR UPDATE without WITH CHECK checks the
\* new row with its USING expression
UpdateTaskAs(uid, id, owner, ref) ==
    /\ LET changed(row) == [row EXCEPT !.user_id = owner, !.subject_id = ref]
           touched(row) == row.id = id /\ OwnRow(uid, row)
           accepted == /\ ReferenceHolds(ref)
                       /\ \A i \in 1..Len(dbTasks) :
                             touched(dbTasks[i])
                                => OwnRow(uid, changed(dbTasks[i]))
       IN  /\ dbTasks' = IF accepted
                         THEN [i \in 1..Len(dbTasks) |->
                                  IF touched(dbTasks[i])
                                  THEN changed(dbTasks[i]) ELSE dbTasks[i]]
                         ELSE dbTasks
           /\ lastCommand' = [uid |-> uid, op |-> "update", table |-> "tasks",
                              returned |-> << >>]
    /\ UNCHANGED dbSubjects
    /\ OwnershipFrame

\* update subjects set user_id where id = id
UpdateSubjectAs(uid, id, owner) ==
    /\ LET changed(row) == [row EXCEPT !.user_id = owner]
           touched(row) == row.id = id /\ OwnRow(uid, row)
           accepted == \A i \in 1..Len(dbSubjects) :
                           touched(dbSubjects[i])
                              => OwnRow(uid, changed(dbSubjects[i]))
       IN  /\ dbSubjects' = IF accepted
                            THEN [i \in 1..Len(dbSubjects) |->
                                     IF touched(dbSubjects[i])
                                     THEN changed(dbSubjects[i])
                                     ELSE dbSubjects[i]]
                            ELSE dbSubjects
           /\ lastCommand' = [uid |-> uid, op |-> "update",
                              table |-> "subjects", returned |-> << >>]
    /\ UNCHANGED dbTasks
    /\ OwnershipFrame

\* delete from tasks where id = id: USING (auth.uid() = user_id)
DeleteTaskAs(uid, id) ==
    /\ dbTasks' = SelectSeq(dbTasks,
                            LAMBDA row : ~(row.id = id /\ OwnRow(uid, row)))
    /\ lastCommand' = [uid |-> uid, op |-> "delete", table |-> "tasks",
                       returned |-> << >>]
    /\ UNCHANGED dbSubjects
    /\ OwnershipFrame

\* delete from subjects where id = id: USING (auth.uid() = user_id); the
\* tasks that reference a deleted subject go with it (ON DELETE CASCADE),
\* and the cascade is carried out without the row level policies
DeleteSubjectAs(uid, id) ==
    /\ dbSubjects' = SelectSeq(dbSubjects,
                               LAMBDA row : ~(row.id = id /\ OwnRow(uid, row)))
    /\ dbTasks' = SelectSeq(dbTasks,
          LAMBDA k : \/ k.subject_id = Null
                     \/ \E i \in 1..Len(dbSubjects') :
                           dbSubjects'[i].id = k.subject_id)
    /\ lastCommand' = [uid |-> uid, op |-> "delete", table |-> "subjects",
                       returned |-> << >>]
    /\ OwnershipFrame

\* the ids a statement may name
RowIds == 1..(MaxTasks + 1)

InitOwnership ==
    /\ tz = 7
    /\ dbSubjects = << >>
    /\ dbTasks = << >>
    /\ lastToast = "none"
    /\ CalendarIdle
    /\ PagesIdle
    /\ PollerIdle
    /\ SearchIdle
    /\ DashboardIdle
    /\ rendered = None

NextOwnership ==
    \E uid \in Users :
        \/ \E table \in {"subjects", "tasks"} : SelectAs(uid, table)
        \/ \E owner \in Users : InsertSubjectAs(uid, owner)
        \/ \E owner \in Users, ref \in {Null} \cup RowIds :
              InsertTaskAs(uid, owner, ref)
        \/ \E id \in RowIds, owner \in Users, ref \in {Null} \cup RowIds :
              UpdateTaskAs(uid, id, owner, ref)
        \/ \E id \in RowIds, owner \in Users : UpdateSubjectAs(uid, id, owner)
        \/ \E id \in RowIds : DeleteTaskAs(uid, id)
        \/ \E id \in RowIds : DeleteSubjectAs(uid, id)

SpecOwnership == InitOwnership /\ [][NextOwnership]_vars

----------------------------------------------------------------------------
(* The calendar widget with overlapping fetches *)

\* the widget after it is mounted: it does not set loading again, so a
\* date may be chosen while an earlier fetchData awaits the gateway
InitRace ==
    /\ tz = 7
    /\ dbSubjects \in SubjectLists({6})
    /\ dbTasks \in TaskLists(MonthEndDueDates \X {FALSE})
    /\ mounted = "CalendarWidget"
    /\ selectedDate \in NowSet
    /\ events = << >>
    /\ selectedDayEvents = << >>
    /\ isDayModalOpen = FALSE
    /\ loading = TRUE
    /\ inflight = << selectedDate >>
    /\ lastToast = "none"
    /\ lastArgs = None
    /\ staleStore = FALSE
    /\ PagesIdle
    /\ PollerIdle
    /\ SearchIdle
    /\ DashboardIdle
    /\ rendered = None

NextRace ==
    \/ \E day \in ClickDays : SelectDate(day, MaxOverlap)
    \/ \E i \in 1..MaxOverlap : FetchDataResolve(i)
    \/ CloseDayModal

SpecRace == InitRace /\ [][NextRace]_vars

----------------------------------------------------------------------------
(* Dashboard *)

\* select * from subjects where day_of_week = day order by start_time
SelectSubjectsOfDay(day) ==
    SelectSeq(SelectSubjectsOrdered, LAMBDA s : s.day_of_week = day)

\* nextWeek.setDate(nextWeek.getDate() + 7) : the local day a week later
\* at the same local time of day
SetDatePlusSeven(t) ==
    LET c == LocalDate(t) IN LocalInstant(c.y, c.m, c.d + 7, LocalHour(t))

\* the tasks not completed with gte("due_date", lo) and lte("due_date", hi),
\* ordered by due_date and priority descending
SelectUpcomingTasks(lo, hi) ==
    SelectSeq(SelectTasksOrdered,
              LAMBDA t : /\ DateLE(lo, t.due_date)
                         /\ DateLE(t.due_date, hi)
                         /\ ~t.is_completed)

\* the rows of upcomingTasks without the task marked
WithoutTask(prev, taskId) == SelectSeq(prev, LAMBDA task : task.id # taskId)

\* fetchDashboardData: the three queries succeed; today is the Date of the
\* render
FetchDashboardDataResolve(r, today) ==
    /\ r \in 1..Len(requests)
    /\ requests[r].op = "fetchDashboardData"
    /\ todaySubjects' = SelectSubjectsOfDay(GetDay(today))
    /\ tomorrowSubjects' = SelectSubjectsOfDay(GetDay(SetDatePlusOne(today)))
    /\ upcomingTasks' =
          SelectUpcomingTasks(ToISODateString(today),
                              ToISODateString(SetDatePlusSeven(today)))
    /\ dashboardLoading' = FALSE
    /\ requests' = Remove(requests, r)
    /\ UNCHANGED <<tz, dbSubjects, dbTasks, lastToast, calendarVars, dbClock,
                   lastCommand, pageSubjects, pageTasks, toggleLog, taskForm,
                   subjectForm, pollerVars, searchVars,
                   rendered>>

\* fetchDashboardData: a query returns an error
FetchDashboardDataReject(r) ==
    /\ r \in 1..Len(requests)
    /\ requests[r].op = "fetchDashboardData"
    /\ lastToast' = "Gagal memuat data dashboard"
    /\ dashboardLoading' = FALSE
    /\ requests' = Remove(requests, r)
    /\ UNCHANGED <<tz, dbSubjects, dbTasks, calendarVars, dbClock, lastCommand,
                   pageSubjects, pageTasks, toggleLog, taskForm, subjectForm,
                   pollerVars, searchVars, todaySubjects, tomorrowSubjects,
                   upcomingTasks,
                   rendered>>

\* how many upcoming tasks the dashboard lists: upcomingTasks.slice(0, 5)
DashboardTasksShown == 5

\* the button of a listed task: markTaskComplete(task.id) sends the update
MarkTaskCompleteStart(i) ==
    /\ ~dashboardLoading
    /\ i \in 1..Len(upcomingTasks)
    /\ i <= DashboardTasksShown
    /\ MaySend
    /\ requests' = Append(requests, [op |-> "markTask",
                                     id |-> upcomingTasks[i].id])
    /\ UNCHANGED <<tz, dbSubjects, dbTasks, lastToast, calendarVars, dbClock,
                   lastCommand, pageSubjects, pageTasks, toggleLog, taskForm,
                   subjectForm, pollerVars, searchVars, dashboardVars,
                   rendered>>

\* markTaskComplete: the gateway reports success
MarkTaskCompleteResolve(r) ==
    /\ r \in 1..Len(requests)
    /\ requests[r].op = "markTask"
    /\ GatewayUpdateTask(requests[r].id, [is_completed |-> TRUE], "Dashboard")
    /\ upcomingTasks' = WithoutTask(upcomingTasks, requests[r].id)
    /\ lastToast' = "Tugas telah ditandai selesai"
    /\ requests' = Remove(requests, r)
    /\ UNCHANGED <<tz, dbSubjects, calendarVars, pageSubjects, pageTasks,
                   toggleLog, taskForm, subjectForm, pollerVars, searchVars,
                   todaySubjects, tomorrowSubjects, dashboardLoading,
                   rendered>>

\* markTaskComplete: the gateway returns an error
MarkTaskCompleteReject_Removes(r) ==
    /\ r \in 1..Len(requests)
    /\ requests[r].op = "markTask"
    /\ lastToast' = "Gagal menandai tugas selesai"
    /\ upcomingTasks' = WithoutTask(upcomingTasks, requests[r].id)
    /\ requests' = Remove(requests, r)
    /\ UNCHANGED <<tz, dbSubjects, dbTasks, calendarVars, dbClock, lastCommand,
                   pageSubjects, pageTasks, toggleLog, taskForm, subjectForm,
                   pollerVars, searchVars, todaySubjects, tomorrowSubjects,
                   dashboardLoading,
                   rendered>>

MarkTaskCompleteReject(r) ==
    /\ r \in 1..Len(requests)
    /\ requests[r].op = "markTask"
    /\ lastToast' = "Gagal menandai tugas selesai"
    /\ requests' = Remove(requests, r)
    /\ UNCHANGED <<tz, dbSubjects, dbTasks, calendarVars, dbClock, lastCommand,
                   pageSubjects, pageTasks, toggleLog, taskForm, subjectForm,
                   pollerVars, searchVars, dashboardVars,
                   rendered>>

----------------------------------------------------------------------------
(* The pages and their commands, with the gateway failing or not *)

\* one of the three pages after it is mounted: its fetch awaits the gateway
PageMounted ==
    /\ lastToast = "none"
    /\ dbClock = 0
    /\ lastCommand = None
    /\ pageSubjects = << >>
    /\ pageTasks = << >>
    /\ requests \in {<< [op |-> "fetchSubjects"] >>,
                     << [op |-> "fetchTasks"] >>,
                     << [op |-> "fetchDashboardData"] >>}
    /\ toggleLog = << >>
    /\ taskForm = None
    /\ subjectForm = None

InitCommands ==
    /\ tz = 7
    /\ dbSubjects \in StoredSubjects(MaxSubjects)
    /\ dbTasks \in StoredTasks(MaxTasks)
    /\ CalendarIdle
    /\ PageMounted
    /\ PollerIdle
    /\ SearchIdle
    /\ DashboardIdle
    /\ rendered = None

NextCommands ==
    \/ \E r \in 1..MaxRequests : FetchSubjectsResolve(r)
    \/ \E r \in 1..MaxRequests : FetchTasksResolve(r)
    \/ \E r \in 1..MaxRequests, today \in NowSet :
          FetchDashboardDataResolve(r, today)
    \/ \E r \in 1..MaxRequests : FetchDashboardDataReject(r)
    \/ \E i \in 1..MaxSubjects : DeleteSubjectStart(i)
    \/ \E r \in 1..MaxRequests : DeleteSubjectResolve(r)
    \/ \E r \in 1..MaxRequests : DeleteSubjectReject(r)
    \/ \E i \in 1..MaxTasks : ToggleTaskCompleteStart(i)
    \/ \E r \in 1..MaxRequests : ToggleTaskCompleteResolve(r)
    \/ \E r \in 1..MaxRequests : ToggleTaskCompleteReject(r)
    \/ \E i \in 1..MaxTasks : DeleteTaskStart(i)
    \/ \E r \in 1..MaxRequests : DeleteTaskResolve(r)
    \/ \E r \in 1..MaxRequests : DeleteTaskReject(r)
    \/ \E i \in 1..MaxTasks : MarkTaskCompleteStart(i)
    \/ \E r \in 1..MaxRequests : MarkTaskCompleteResolve(r)
    \/ \E r \in 1..MaxRequests : MarkTaskCompleteReject(r)

SpecCommands == InitCommands /\ [][NextCommands]_vars

----------------------------------------------------------------------------
(* DayDetailModal: the sections rendered *)

\* the joined column subjects (name, color) of a task row of the calendar
\* query (the subjects do not change between the query and the render
\* here): None for a task without subject
JoinedSubjects(task) ==
    IF task.subject_id = Null \/ RowOf(dbSubjects, task.subject_id) = None
    THEN None
    ELSE [name |-> RowOf(dbSubjects, task.subject_id).name]

\* events.filter(e => e.type === type).map(e => e.data)
DataOfType(evs, type) ==
    LET kept == SelectSeq(evs, LAMBDA e : e.type = type)
    IN  [i \in 1..Len(kept) |-> kept[i].data]

\* tasks.sort((a, b) => b.priority - a.priority
\*                      || Number(a.is_completed) - Number(b.is_completed))
ModalTaskBefore(a, b) ==
    \/ a.priority > b.priority
    \/ a.priority = b.priority /\ ~a.is_completed /\ b.is_completed

SortModalTasks(tasks) ==
    OrderBy(tasks, {pair \in RowPairs(tasks) : ModalTaskBefore(pair[1], pair[2])})

\* sort((a, b) => a.start_time.localeCompare(b.start_time))
SortByStartTime(subjects) ==
    OrderBy(subjects, {pair \in RowPairs(subjects) :
                          StrLess(pair[1].start_time, pair[2].start_time)})

\* tasksWithSubjects.filter(task => task.subjects?.name === subject.name)
TasksOfSubject(tasksWithSubjects, subject) ==
    SelectSeq(tasksWithSubjects,
              LAMBDA task : JoinedSubjects(task).name = subject.name)

\* the three lists the modal renders: the cards of the subjects, each with
\* its related tasks; the subjects that are in no card; the tasks without
\* subject
DayDetailSections(evs) ==
    LET subjects == DataOfType(evs, "subject")
        allTasks == DataOfType(evs, "task")
        tasksWithSubjects ==
            SelectSeq(allTasks, LAMBDA task : JoinedSubjects(task) # None)
        tasksWithoutSubjects ==
            SelectSeq(allTasks, LAMBDA task : JoinedSubjects(task) = None)
        sorted == SortByStartTime(subjects)
        subjectsWithTasks ==
            [i \in 1..Len(sorted) |->
                [subject |-> sorted[i],
                 tasks |-> SortModalTasks(
                               TasksOfSubject(tasksWithSubjects, sorted[i]))]]
        standalone ==
            SelectSeq(subjects,
                      LAMBDA s : ~\E i \in 1..Len(subjectsWithTasks) :
                                     subjectsWithTasks[i].subject.id = s.id)
    IN  [cards |-> subjectsWithTasks,
         subjects |-> SortByStartTime(standalone),
         tasks |-> SortModalTasks(tasksWithoutSubjects)]

\* React renders DayDetailModal with the events of the selected day
RenderDayDetailModal ==
    /\ isDayModalOpen
    /\ rendered = None
    /\ rendered' = DayDetailSections(selectedDayEvents)
    /\ UNCHANGED <<tz, dbSubjects, dbTasks, lastToast, calendarVars, pageVars,
                   pollerVars, searchVars, dashboardVars>>

\* names and weekdays of the stored subjects
DayDetailNames == {"S", "M"}

DayDetailWeekdays == {1, 2}

\* up to two subjects, on Monday or Tuesday, and up to MaxTasks tasks due
\* on Monday 2025-03-03, each with or without a subject
DayDetailSubjects ==
    {[i \in 1..n |-> SubjectRecord(i, name[i], dow[i], <<7 + i, 0>>, <<8 + i, 0>>)] :
        n \in 0..(MaxSubjects + 1),
        name \in [1..(MaxSubjects + 1) -> DayDetailNames],
        dow \in [1..(MaxSubjects + 1) -> DayDetailWeekdays]}

DayDetailTasks ==
    {[i \in 1..n |-> TaskRecord(i, ref[i], "T", D(2025, 3, 3), 1, FALSE, 0)] :
        n \in 0..MaxTasks, ref \in [1..MaxTasks -> SubjectRefs]}

\* the calendar page after it is mounted
InitDayDetail ==
    /\ tz = 7
    /\ dbSubjects \in DayDetailSubjects
    /\ dbTasks \in DayDetailTasks
    /\ mounted = "CalendarPage"
    /\ selectedDate \in NowSet
    /\ events = << >>
    /\ selectedDayEvents = << >>
    /\ isDayModalOpen = FALSE
    /\ loading = TRUE
    /\ inflight = << selectedDate >>
    /\ lastToast = "none"
    /\ lastArgs = None
    /\ staleStore = FALSE
    /\ PagesIdle
    /\ PollerIdle
    /\ SearchIdle
    /\ DashboardIdle
    /\ rendered = None

NextDayDetail ==
    \/ \E i \in 1..MaxInflight : FetchDataResolve(i)
    \/ \E day \in ModalClickDays : HandleDateSelect(day)
    \/ RenderDayDetailModal
    \/ CloseDayModal

SpecDayDetail == InitDayDetail /\ [][NextDayDetail]_vars

----------------------------------------------------------------------------
(* Properties *)

Range(seq) == {seq[i] : i \in 1..Len(seq)}

\* the query dates of the properties: the days 2025-02-26 .. 2025-03-07 at the
\* local hours 0 and 23
QueryDates ==
    {LocalInstant(2025, 2, 26 + k, h) : k \in 0..9, h \in {0, 23}}

\* local day numbers of the days of the closed range [rangeStart, rangeEnd]
DaysOfRange(rangeStart, rangeEnd) ==
    LocalDayNumber(rangeStart)..LocalDayNumber(rangeEnd)

\* weekday (Sunday = 0) of a day number
WeekdayOfDay(day) == (day + 4) % 7

\* indices of the occurrences of subject sub
SubjectOccurrences(sub) ==
    {k \in 1..Len(events) : events[k].type = "subject" /\ events[k].data = sub}

\* days of the range of the latest call that have the weekday of sub
MatchingDays(sub) ==
    {day \in DaysOfRange(lastArgs.monthStart, lastArgs.monthEnd) :
        WeekdayOfDay(day) = sub.day_of_week}

\* C1: after generateCalendarEvents(subjects, tasks, rangeStart, rangeEnd),
\* every subject has exactly one occurrence on each day of the range that
\* has its weekday, dated on that day, and no other occurrence: as many
\* occurrences as there are such days, none when there is no such day.
C1_SubjectOccurrencesPerMatchingDay ==
    lastArgs # None =>
        \A i \in 1..Len(lastArgs.subjects) :
            LET sub == lastArgs.subjects[i]
                occ == SubjectOccurrences(sub)
            IN  /\ \A day \in MatchingDays(sub) :
                      Cardinality({k \in occ :
                          LocalDayNumber(events[k].date) = day}) = 1
                /\ \A k \in occ :
                      LocalDayNumber(events[k].date) \in MatchingDays(sub)
                /\ Cardinality(occ) = Cardinality(MatchingDays(sub))

\* the range holds two days of the weekday of a subject, and the subject
\* has its two occurrences
C1_Witness ==
    /\ lastArgs # None
    /\ \E i \in 1..Len(lastArgs.subjects) :
          /\ Cardinality(MatchingDays(lastArgs.subjects[i])) = 2
          /\ Cardinality(SubjectOccurrences(lastArgs.subjects[i])) = 2

\* indices of the task occurrences
TaskOccurrences == {k \in 1..Len(events) : events[k].type = "task"}

\* C2: on the calendar page every task occurrence lies on the local calendar
\* day named by the task's due_date, whatever the UTC offset, and
\* getEventsForDate of that local day returns it.
C2_PageTaskOnLocalDueDate ==
    mounted = "CalendarPage" =>
        \A k \in TaskOccurrences :
            LET due == events[k].data.due_date
            IN  /\ LocalDate(events[k].date) = due
                /\ events[k] \in Range(getEventsForDate(events,
                                   LocalInstant(due.y, due.m, due.d, 12)))

\* a task due 2025-03-01 materialized by the page at UTC-5
C2_Witness ==
    /\ mounted = "CalendarPage"
    /\ tz = -5
    /\ \E k \in TaskOccurrences : events[k].data.due_date = D(2025, 3, 1)

\* the occurrences of the local day of q, by their calendar fields
OnLocalDay(q) == {k \in 1..Len(events) : LocalDate(events[k].date) = LocalDate(q)}

\* the class the precedence rule gives the local day of q
PrecedenceClass(q) ==
    LET onDay == OnLocalDay(q)
        hasSubject == \E k \in onDay : events[k].type = "subject"
        hasPending == \E k \in onDay :
                          events[k].type = "task" /\ ~events[k].data.is_completed
        hasCompleted == \E k \in onDay :
                          events[k].type = "task" /\ events[k].data.is_completed
    IN  CASE hasSubject /\ hasPending -> "mixed"
          [] hasSubject /\ ~hasPending -> "class"
          [] ~hasSubject /\ hasPending -> "pending-task"
          [] ~hasSubject /\ ~hasPending /\ hasCompleted -> "completed-task"
          [] OTHER -> "empty"

\* C3: getDateClassName gives every day the class of the precedence rule:
\* subject and incomplete task -> mixed, else subject -> class, else
\* incomplete task -> pending-task, else completed task -> completed-task,
\* else empty.
C3_ClassificationPrecedence ==
    \A q \in QueryDates : getDateClassName(events, q) = PrecedenceClass(q)

\* a day with a subject occurrence and only completed tasks is classified
\* class
C3_Witness ==
    \E q \in QueryDates :
        /\ \E k \in OnLocalDay(q) : events[k].type = "subject"
        /\ \E k \in OnLocalDay(q) : events[k].type = "task"
        /\ \A k \in OnLocalDay(q) :
              events[k].type = "task" => events[k].data.is_completed
        /\ getDateClassName(events, q) = "class"

\* the subject occurrences the latest call has to produce
ExpectedSubjectCount ==
    Cardinality({p \in (1..Len(lastArgs.subjects))
                        \X DaysOfRange(lastArgs.monthStart, lastArgs.monthEnd) :
                    WeekdayOfDay(p[2]) = lastArgs.subjects[p[1]].day_of_week})

\* C4: generateCalendarEvents emits one task occurrence for every element of
\* the task list, inside the range or not, and merges nothing: the output
\* has as many entries as there are subject occurrences and tasks.
C4_OneOccurrencePerTask ==
    lastArgs # None =>
        /\ \A i \in 1..Len(lastArgs.tasks) :
              Cardinality({k \in TaskOccurrences :
                              events[k].data = lastArgs.tasks[i]}) = 1
        /\ Cardinality(TaskOccurrences) = Len(lastArgs.tasks)
        /\ Len(events) = ExpectedSubjectCount + Len(lastArgs.tasks)

\* one task is due outside the range, another shares its day with a subject
\* occurrence
C4_Witness ==
    /\ lastArgs # None
    /\ \E k \in TaskOccurrences :
          \/ events[k].date < lastArgs.monthStart
          \/ events[k].date > lastArgs.monthEnd
    /\ \E k \in TaskOccurrences, j \in 1..Len(events) :
          /\ events[j].type = "subject"
          /\ LocalDate(events[j].date) = LocalDate(events[k].date)

\* the occurrences with the same local year, month and day as q
SameCalendarDay(q) ==
    SelectSeq(events, LAMBDA e : LocalDate(e.date) = LocalDate(q))

\* C5: getEventsForDate(date) is the list of the occurrences that have the
\* year, month and day of date, whatever the time of day of either.
C5_EventsOfCalendarDay ==
    \A q \in QueryDates : getEventsForDate(events, q) = SameCalendarDay(q)

\* a query at 23:00 finds an occurrence dated 00:00 of its day, while an
\* occurrence of the day before is left out
C5_Witness ==
    \E q \in QueryDates :
        /\ LocalHour(q) = 23
        /\ \E k \in 1..Len(events) :
              /\ LocalHour(events[k].date) = 0
              /\ events[k] \in Range(getEventsForDate(events, q))
        /\ \E k \in 1..Len(events) :
              /\ LocalDayNumber(events[k].date) = LocalDayNumber(q) - 1
              /\ events[k] \notin Range(getEventsForDate(events, q))

\* the inputs of the end-to-end scenario on the calendar page
ScenarioSubjects == << SubjectRow(1, 1) >>
ScenarioTasks == << TaskRow(1, D(2025, 3, 3), FALSE) >>

ScenarioCall ==
    /\ lastArgs # None
    /\ lastArgs = CallArgs("CalendarPage", ScenarioSubjects, ScenarioTasks,
                           ScenarioRange[1], ScenarioRange[2])

\* C6: one Monday subject and one incomplete task due 2025-03-03 over
\* [2025-03-01, 2025-03-07]: March 3 has exactly a subject occurrence and a
\* task occurrence and is mixed; March 10 has nothing and is empty.
C6_EndToEndScenario ==
    ScenarioCall =>
        LET mar3 == getEventsForDate(events, LocalInstant(2025, 3, 3, 0))
            mar10 == getEventsForDate(events, LocalInstant(2025, 3, 10, 0))
        IN  /\ Len(mar3) = 2
            /\ Cardinality({k \in 1..2 : mar3[k].type = "subject"}) = 1
            /\ Cardinality({k \in 1..2 : mar3[k].type = "task"}) = 1
            /\ getDateClassName(events, LocalInstant(2025, 3, 3, 0)) = "mixed"
            /\ Len(mar10) = 0
            /\ getDateClassName(events, LocalInstant(2025, 3, 10, 0)) = "empty"

C6_Witness == ScenarioCall /\ Len(events) = 2

\* C7: in the calendar widget every task occurrence lies on the local
\* calendar day named by the task's due_date, whatever the UTC offset.
C7_WidgetTaskOnLocalDueDate ==
    mounted = "CalendarWidget" =>
        \A k \in TaskOccurrences :
            LocalDate(events[k].date) = events[k].data.due_date

\* the rows of the user's tasks due in the local month of instant t
TasksOfLocalMonth(t) ==
    SelectSeq(dbTasks, LAMBDA r : /\ r.due_date.y = LocalDate(t).y
                                  /\ r.due_date.m = LocalDate(t).m)

\* C8: the tasks fetched and materialized for a selected date are the
\* user's tasks due in the local calendar month of that date.
C8_FetchedTasksAreThoseOfTheMonth ==
    lastArgs # None => lastArgs.tasks = TasksOfLocalMonth(lastArgs.monthStart)


\* the local days that have an occurrence, each named by its midnight
OccurrenceDays == {StartOfDay(events[k].date) : k \in 1..Len(events)}

\* C9: the class of a day is the same for every order of the day's
\* occurrences.
C9_ClassificationOrderIndependent ==
    \A q \in OccurrenceDays :
        LET dayEvents == getEventsForDate(events, q)
        IN  \A f \in Permutations(Len(dayEvents)) :
                ClassOfDay([i \in 1..Len(dayEvents) |-> dayEvents[f[i]]])
                    = ClassOfDay(dayEvents)

\* a day whose occurrences are of three kinds: a subject, a pending task and
\* a completed task
C9_Witness ==
    \E q \in OccurrenceDays :
        LET dayEvents == getEventsForDate(events, q)
        IN  /\ \E i \in 1..Len(dayEvents) : dayEvents[i].type = "subject"
            /\ \E i \in 1..Len(dayEvents) :
                  dayEvents[i].type = "task" /\ dayEvents[i].data.is_completed
            /\ \E i \in 1..Len(dayEvents) :
                  dayEvents[i].type = "task" /\ ~dayEvents[i].data.is_completed

\* C10: the list a call of generateCalendarEvents stores is, as a set and
\* in length, the list the same call produces in a component that has
\* nothing stored: it depends on the arguments only, so any two calls with
\* the same arguments agree.
C10_MaterializationDeterministic ==
    lastArgs # None =>
        LET fresh == generateCalendarEvents(lastArgs.component, << >>,
                         lastArgs.subjects, lastArgs.tasks,
                         lastArgs.monthStart, lastArgs.monthEnd)
        IN  /\ Range(events) = Range(fresh)
            /\ Len(events) = Len(fresh)

\* the latest call was made over the stored result of a different call
C10_Witness == lastArgs # None /\ staleStore /\ events # << >>

----------------------------------------------------------------------------
(* Subjects page and subject form *)

\* a step in which the gateway executes a command
CommandStep == dbClock' # dbClock

\* C11: deleting a subject never deletes a task: every task that
\* referenced the subject still exists with its subject reference removed
\* (null) and its other fields unchanged, and every other task is untouched
C11_DeleteSubjectKeepsTasks ==
    [][(CommandStep /\ lastCommand'.op = "delete"
                    /\ lastCommand'.table = "subjects")
       => \A i \in 1..Len(dbTasks) : \E j \in 1..Len(dbTasks') :
             dbTasks'[j] = IF dbTasks[i].subject_id = lastCommand'.id
                           THEN [dbTasks[i] EXCEPT !.subject_id = Null]
                           ELSE dbTasks[i]]_vars

\* the time of day of a time string, in minutes
MinuteOfDay(t) == t[1] * 60 + t[2]

\* C15: no insert or update of a subject reaches the gateway with
\* start_time >= end_time, whatever the edits of the two time fields
\* before the submit, for a new subject and for an edited one
C15_SubjectCommandsHaveStartBeforeEnd ==
    (/\ lastCommand # None
     /\ lastCommand.table = "subjects"
     /\ lastCommand.op \in {"insert", "update"})
    => MinuteOfDay(lastCommand.payload.start_time)
         < MinuteOfDay(lastCommand.payload.end_time)

----------------------------------------------------------------------------
(* Tasks page *)

\* the fields of the row that have the same value in both
FieldsKept(a, b, except) == \A g \in (DOMAIN a) \ except : a[g] = b[g]

\* entries k and k + 1 of the log are two successive toggles of one
\* task: the second was issued after the first had completed, and
\* nothing changed the rows in between
SuccessiveToggles(k) ==
    /\ k + 1 <= Len(toggleLog)
    /\ toggleLog[k + 1].id = toggleLog[k].id
    /\ toggleLog[k + 1].issued >= k
    /\ toggleLog[k + 1].dbBefore = toggleLog[k].dbAfter
    /\ toggleLog[k + 1].localBefore = toggleLog[k].localAfter

\* a toggle changed, in rows before and after, at most the fields named
\* of the task toggled
ToggleChangedOnly(before, after, id, fields) ==
    /\ Len(after) = Len(before)
    /\ \A i \in 1..Len(before) :
          IF before[i].id = id
          THEN FieldsKept(before[i], after[i], fields)
          ELSE after[i] = before[i]

\* C12 as stated: two successive successful toggles of a task on the
\* tasks page return the stored rows and the local list to what they
\* were, and neither toggle changes a field other than is_completed
\* (the timestamps included) or any other task
C12_ToggleTwiceRestoresTask ==
    /\ \A k \in 1..Len(toggleLog) :
          LET e == toggleLog[k] IN
          /\ ToggleChangedOnly(e.dbBefore, e.dbAfter, e.id, {"is_completed"})
          /\ ToggleChangedOnly(e.localBefore, e.localAfter, e.id,
                               {"is_completed"})
    /\ \A k \in 1..Len(toggleLog) :
          SuccessiveToggles(k) =>
             /\ toggleLog[k + 1].dbAfter = toggleLog[k].dbBefore
             /\ toggleLog[k + 1].localAfter = toggleLog[k].localBefore

\* C12, amended: two successive successful toggles return is_completed,
\* in the stored row and in the local list, to the value the local list
\* showed before the first; a toggle changes no other field of the task
\* except updated_at of the stored row, and no other task
C12_ToggleTwiceRestoresCompletion ==
    /\ \A k \in 1..Len(toggleLog) :
          LET e == toggleLog[k] IN
          /\ ToggleChangedOnly(e.dbBefore, e.dbAfter, e.id,
                               {"is_completed", "updated_at"})
          /\ ToggleChangedOnly(e.localBefore, e.localAfter, e.id,
                               {"is_completed"})
    /\ \A k \in 1..Len(toggleLog) :
          SuccessiveToggles(k) =>
             LET id == toggleLog[k].id
                 shown == RowOf(toggleLog[k].localBefore, id)
                 stored == RowOf(toggleLog[k + 1].dbAfter, id)
                 listed == RowOf(toggleLog[k + 1].localAfter, id)
             IN  shown # None =>
                    /\ listed # None /\ listed.is_completed = shown.is_completed
                    /\ stored # None => stored.is_completed = shown.is_completed

C12_Witness ==
    \E k \in 1..Len(toggleLog) :
        /\ SuccessiveToggles(k)
        /\ RowOf(toggleLog[k].dbBefore, toggleLog[k].id) # None
        /\ RowOf(toggleLog[k].localBefore, toggleLog[k].id) # None
        /\ RowOf(toggleLog[k + 1].dbAfter, toggleLog[k].id).updated_at
             # RowOf(toggleLog[k].dbBefore, toggleLog[k].id).updated_at

----------------------------------------------------------------------------
(* Task form *)

\* C14: a task created through TaskForm is inserted with
\* is_completed = false, and an edit submitted through TaskForm leaves
\* the stored is_completed of every task as it was
C14_TaskFormLeavesCompletion ==
    [][(CommandStep /\ lastCommand'.table = "tasks"
                    /\ lastCommand'.source = "TaskForm")
       => IF lastCommand'.op = "insert"
          THEN /\ Len(dbTasks') = Len(dbTasks) + 1
               /\ dbTasks'[Len(dbTasks')].is_completed = FALSE
               /\ \A i \in 1..Len(dbTasks) : dbTasks'[i] = dbTasks[i]
          ELSE /\ lastCommand'.op = "update"
               /\ Len(dbTasks') = Len(dbTasks)
               /\ \A i \in 1..Len(dbTasks) :
                     dbTasks'[i].is_completed = dbTasks[i].is_completed]_vars

\* an edit of a completed task has been stored, and so has a new task
C14_Witness ==
    /\ lastCommand # None
    /\ lastCommand.table = "tasks"
    /\ lastCommand.source = "TaskForm"
    /\ lastCommand.op = "update"
    /\ RowOf(dbTasks, lastCommand.id) # None
    /\ RowOf(dbTasks, lastCommand.id).is_completed
    /\ RowOf(dbTasks, lastCommand.id).updated_at = dbClock
    /\ \E i \in 1..Len(dbTasks) : dbTasks[i].created_at > 0

----------------------------------------------------------------------------
(* Day-detail modal *)

\* the task occurrences of the list carry the stored completion flag
ShowsStoredCompletion(list) ==
    \A k \in 1..Len(list) :
        (list[k].type = "task" /\ RowOf(dbTasks, list[k].data.id) # None)
        => list[k].data.is_completed
             = RowOf(dbTasks, list[k].data.id).is_completed

\* C13: once a task has been toggled from the day-detail modal and no
\* fetch is under way, the calendar's occurrence list (and with it the
\* classification of the day) and the contents of the reopened modal
\* carry the task's stored is_completed, so that the next toggle from the
\* modal sends the opposite value
C13_CalendarReflectsToggledTask ==
    (/\ lastCommand # None
     /\ lastCommand.source = "DayDetailModal"
     /\ inflight = << >>
     /\ ~loading)
    => /\ ShowsStoredCompletion(events)
       /\ isDayModalOpen => ShowsStoredCompletion(selectedDayEvents)

\* how many of the notifications are of the type and about the row
CountOf(created, type, ref) ==
    Cardinality({i \in 1..Len(created) :
                    created[i].type = type /\ created[i].ref = ref})

\* half minutes from the latest check until the start of the class on the
\* local day of the check
UntilStart(s) ==
    LET midnight == LocalInstant(LocalDate(HourOf(lastCheck.at)).y,
                                 LocalDate(HourOf(lastCheck.at)).m,
                                 LocalDate(HourOf(lastCheck.at)).d, 0)
                    * HalfMinutesPerHour
    IN  midnight + (s.start_time[1] * 60 + s.start_time[2]) * 2 - lastCheck.at

\* the class is on the local weekday of the latest check
OnWeekdayOfCheck(s) ==
    LET date == LocalDate(HourOf(lastCheck.at))
    IN  s.day_of_week = (DaysFromCivil(date.y, date.m, date.d) + 4) % 7

\* the alerts of the type that the latest check created have the priority
PriorityOf(type, priority) ==
    \A j \in 1..Len(lastCheck.created) :
        lastCheck.created[j].type = type
            => lastCheck.created[j].priority = priority

DateOfCheck == LocalDate(HourOf(lastCheck.at))

DateAfterCheck == LocalDate(HourOf(lastCheck.at) + HoursPerDay)

\* C17: a poll emits exactly one task alert for every incomplete task due
\* on the current local calendar date, and none for any other task, for
\* every UTC offset; its priority is high for task priority 3, medium for
\* 2, low for 1.
C17_TaskAlertForTasksDueOnLocalDate ==
    lastCheck.n > 0 =>
        \A i \in 1..Len(dbTasks) :
            LET k == dbTasks[i] IN
            IF ~k.is_completed /\ k.due_date = DateOfCheck
            THEN /\ CountOf(lastCheck.created, "task", k.id) = 1
                 /\ \A j \in 1..Len(lastCheck.created) :
                        (lastCheck.created[j].type = "task"
                         /\ lastCheck.created[j].ref = k.id)
                        => lastCheck.created[j].priority
                           = (CASE k.priority = 3 -> "high"
                                [] k.priority = 2 -> "medium"
                                [] OTHER -> "low")
            ELSE CountOf(lastCheck.created, "task", k.id) = 0

\* the minute of the local day at which the latest check ran
MinuteOfCheck ==
    (lastCheck.at - LocalInstant(DateOfCheck.y, DateOfCheck.m, DateOfCheck.d, 0)
                    * HalfMinutesPerHour) \div 2

\* how many reminders are among the notifications
Reminders(created) ==
    Cardinality({j \in 1..Len(created) : created[j].type = "reminder"})

\* C18: the reminder of the tasks due tomorrow is emitted only by a poll at
\* hour 8 and minute 0 of the wall clock and only when an incomplete task
\* is due tomorrow, as one alert of medium priority; over a run of the
\* poller it is emitted at most once per calendar day (the runs stay
\* within one local day).
C18_ReminderAtEightOncePerDay ==
    /\ lastCheck.n > 0 =>
          /\ Reminders(lastCheck.created) <= 1
          /\ PriorityOf("reminder", "medium")
          /\ Reminders(lastCheck.created) = 1 =>
                /\ MinuteOfCheck = 8 * 60
                /\ \E i \in 1..Len(dbTasks) :
                      /\ ~dbTasks[i].is_completed
                      /\ dbTasks[i].due_date = DateAfterCheck
    /\ Reminders(alerts) <= 1

\* how many alerts the poller has emitted for the class
ClassAlertsFor(id) == CountOf(alerts, "class", id)

\* C19: over a run of the poller a class of today gets at most 15 alerts.
C19_AtMost15AlertsPerClass ==
    \A i \in 1..Len(dbSubjects) : ClassAlertsFor(dbSubjects[i].id) <= 15

\* C20: checkUpcomingItems runs once when the hook starts and then once
\* per tick of 60 seconds; at most one interval timer is active; after
\* unmount no tick starts a check.
C20_OneCheckAtStartThenPerTick ==
    [][/\ Cardinality(timers') <= 1
       /\ (~hookMounted /\ hookMounted') => lastCheck'.n = lastCheck.n + 1
       /\ (lastCheck'.n # lastCheck.n /\ ~(~hookMounted /\ hookMounted'))
            => /\ hookMounted
               /\ lastCheck'.n = lastCheck.n + 1
               /\ lastCheck'.by = "tick"
               /\ lastCheck.n > 0
               /\ lastCheck'.at \in timers
               /\ (lastCheck.by = "tick"
                    => lastCheck'.at = lastCheck.at + 60 \div 30)]_vars

\* the notifications that the step has created
CreatedByStep == SubSeq(alerts', Len(alerts) + 1, Len(alerts'))

\* C21: every alert created is appended once to the notification list and
\* shown as one toast, and gets a browser notification exactly when the
\* notification permission is 'granted' at that time.
C21_BrowserNotificationIffGranted ==
    [][LET created == CreatedByStep IN
       /\ Len(notifications') >= Len(created)
       /\ created = SubSeq(notifications',
                           Len(notifications') - Len(created) + 1,
                           Len(notifications'))
       /\ \A i \in 1..Len(created) :
             /\ created[i].toast
             /\ created[i].browser <=> (permission' = "granted"
                                        /\ browserPermission' = "granted")]_vars

\* a searchData call completes in the step with a query that returned an
\* error
SearchFailedInStep ==
    /\ Len(searches') < Len(searches)
    /\ ~(lastSearch'.subjectsOk /\ lastSearch'.tasksOk)

\* C22: a gateway request that returns an error is shown to the user as an
\* error message and is not taken for an empty result (here: the queries
\* of the search bar).
C22_FailedSearchShowsError ==
    [][SearchFailedInStep
        => /\ lastToast' # "none"
           /\ results' = results]_vars

\* the step is a mount of a calendar component or the choice of a date
TriggeredStep ==
    \/ \E c \in Components, at \in NowSet : Mount(c, at)
    \/ \E day \in ClickDays : HandleDateSelect(day)

RowsOfOthers(uid, rows) == SelectSeq(rows, LAMBDA row : row.user_id # uid)

\* C24: whatever statements a user makes on subjects and tasks, the rows
\* read are the user's own, no row of another user is created, changed,
\* re-assigned or deleted.
C24_RowsOfOthersUntouched ==
    [][LET uid == lastCommand'.uid IN
       /\ lastCommand'.table = "subjects"
            => \A i \in 1..Len(lastCommand'.returned) :
                  lastCommand'.returned[i].user_id = uid
       /\ (lastCommand'.table = "tasks" /\ lastCommand'.op = "select")
            => \A i \in 1..Len(lastCommand'.returned) :
                  /\ lastCommand'.returned[i].task.user_id = uid
                  /\ \A j \in 1..Len(lastCommand'.returned[i].subjects) :
                        lastCommand'.returned[i].subjects[j].user_id = uid
       /\ RowsOfOthers(uid, dbSubjects') = RowsOfOthers(uid, dbSubjects)
       /\ RowsOfOthers(uid, dbTasks') = RowsOfOthers(uid, dbTasks)]_vars

\* the occurrences of the month of the selected date, as a fetchData that
\* starts and completes now would store them
EventsOfSelectedMonth ==
    generateCalendarEvents(mounted, << >>, SelectSubjects,
        SelectTasks(ToISODateString(StartOfMonth(selectedDate)),
                    ToISODateString(EndOfMonth(selectedDate))),
        StartOfMonth(selectedDate), EndOfMonth(selectedDate))

\* C25: when the selected date has changed while a fetch was in flight,
\* then once every fetch has completed the occurrences stored are those of
\* the month of the selected date, whatever the order of the responses.
C25_LatestSelectionWins ==
    (inflight = << >> /\ lastArgs # None) => events = EventsOfSelectedMonth

\* the form holds a stored task whose date was not changed in the form
UntouchedDueDate ==
    /\ taskForm # None
    /\ taskForm.task # None
    /\ RowOf(dbTasks, taskForm.task.id) # None
    /\ RowOf(dbTasks, taskForm.task.id).due_date = taskForm.task.due_date
    /\ taskForm.due_date = << ParseDateOnly(taskForm.task.due_date) >>

\* C26: a task that is opened in TaskForm and saved with its date left as it
\* was keeps the due_date it had, at every UTC offset of the browser.
C26_SaveKeepsDueDate ==
    [][(UntouchedDueDate /\ TaskFormSubmit)
          => RowOf(dbTasks', taskForm.task.id).due_date
                 = RowOf(dbTasks, taskForm.task.id).due_date]_vars

\* the is_completed values of task id in the local list and at the gateway
\* are the same (a task that is in neither list agrees)
CompletionAgrees(local, stored, id) ==
    (RowOf(local, id) # None /\ RowOf(stored, id) # None)
        => RowOf(local, id).is_completed = RowOf(stored, id).is_completed

\* C27: when toggleTaskComplete is invoked twice on a task of the tasks page
\* before the first request completes, then after both have completed the
\* is_completed shown in the local list is the one stored at the gateway.
C27_DoubleToggleAgrees ==
    \A n \in 2..Len(toggleLog) :
        (/\ toggleLog[n].id = toggleLog[n - 1].id
         /\ toggleLog[n].issued <= n - 2
         /\ CompletionAgrees(toggleLog[n - 1].localBefore,
                             toggleLog[n - 1].dbBefore, toggleLog[n].id))
            => CompletionAgrees(toggleLog[n].localAfter, toggleLog[n].dbAfter,
                                toggleLog[n].id)

\* the message shown when the gateway refuses the command
ErrorToastOf(op) ==
    IF op = "deleteSubject" THEN "Gagal menghapus mata pelajaran"
    ELSE IF op = "deleteTask" THEN "Gagal menghapus tugas"
    ELSE IF op = "toggleTask" THEN "Gagal memperbarui status tugas"
    ELSE "Gagal menandai tugas selesai"

\* a deleteSubject, deleteTask, toggleTaskComplete or markTaskComplete call
\* ends in this step with nothing written at the gateway
CommandRefused(r) ==
    /\ r \in 1..Len(requests)
    /\ requests[r].op \in {"deleteSubject", "deleteTask", "toggleTask",
                           "markTask"}
    /\ requests' = Remove(requests, r)
    /\ dbClock' = dbClock
    /\ dbSubjects' = dbSubjects
    /\ dbTasks' = dbTasks

\* C28: when the gateway returns an error for deleteSubject, deleteTask,
\* toggleTaskComplete or markTaskComplete, the local lists stay as they
\* were and the error message of the command is the message shown; a local
\* list changes by a command only when the gateway has carried it out.
C28_RefusedCommandLeavesLists ==
    [][\A r \in 1..MaxRequests :
          CommandRefused(r)
              => /\ pageSubjects' = pageSubjects
                 /\ pageTasks' = pageTasks
                 /\ upcomingTasks' = upcomingTasks
                 /\ lastToast' = ErrorToastOf(requests[r].op)]_vars

\* markTaskComplete was refused and the task is still listed
C28_Witness ==
    /\ lastToast = "Gagal menandai tugas selesai"
    /\ upcomingTasks # << >>
    /\ requests = << >>
    /\ dbClock = 0

\* how many times the modal displays the task / the subject with the id
TaskShown(id) ==
    Cardinality({pos \in (1..Len(rendered.cards)) \X (1..MaxTasks + 1) :
                    /\ pos[2] <= Len(rendered.cards[pos[1]].tasks)
                    /\ rendered.cards[pos[1]].tasks[pos[2]].id = id})
    + Cardinality({j \in 1..Len(rendered.tasks) : rendered.tasks[j].id = id})

SubjectShown(id) ==
    Cardinality({c \in 1..Len(rendered.cards) :
                    rendered.cards[c].subject.id = id})
    + Cardinality({j \in 1..Len(rendered.subjects) :
                      rendered.subjects[j].id = id})

\* C29: DayDetailModal displays every task occurrence of the events it is
\* given exactly once, under the card of its subject or among the tasks
\* without subject, and every subject occurrence exactly once.
C29_EveryOccurrenceShownOnce ==
    rendered # None =>
        \A k \in 1..Len(selectedDayEvents) :
            IF selectedDayEvents[k].type = "task"
            THEN TaskShown(selectedDayEvents[k].data.id) = 1
            ELSE SubjectShown(selectedDayEvents[k].data.id) = 1

\* no searchData call is pending or awaits the gateway, and no query of the
\* call that completed last returned an error
SearchesSettled ==
    /\ searches = << >>
    /\ debounce = None
    /\ lastSearch # None => (lastSearch.subjectsOk /\ lastSearch.tasksOk)

\* C30: once every search in flight has completed, the results displayed by
\* the search bar are those of the term entered last, and they are empty
\* when the trimmed term has fewer than 2 characters, whatever the order
\* in which the responses arrive.
C30_ResultsOfLatestTerm ==
    SearchesSettled =>
        results = IF Len(Trim(search)) < 2
                  THEN << >>
                  ELSE SearchResults(search, TRUE, TRUE)

====
